---- MODULE Spec2Model ----
(***************************************************************************)
(* A model of patchutils.py: the two readers, the lexical helpers, the     *)
(* header scan of PatchFile.add_patch, the hunk parsers and the driver     *)
(* loop of PatchFile.__init__.                                             *)
(*                                                                         *)
(* Text is a sequence of one-character strings, indexed from 0 in the      *)
(* helper operators as in the Python source.  A nullable value is a        *)
(* sequence of length 0 (None) or 1 (the value).                           *)
(***************************************************************************)
EXTENDS Integers, Sequences, FiniteSets, TLC

VARIABLES
    lines,        \* the input: LineReader.lines
    diff_type,    \* PatchFile.diff_type
    need_header,  \* the need_header argument of PatchFile
    reader,       \* the reader: lineno, indent, rfc934_nesting, strip_cr, line
    header,       \* PatchFile.header: nullable list of raw lines
    patches,      \* PatchFile.patches
    end,          \* PatchFile.end, nullable
    patch,        \* the patch whose hunks are being parsed, nullable
    pc,           \* "scan", "hunks", "done" or "raised"
    freader,      \* a FileReader over the same content: the fields of the
                  \* reader, the offset of f and line2pos
    visited,      \* the line positions the readers have been at
    result        \* what the last reader operation returned, per reader

vars ==
    <<lines, diff_type, need_header, reader, header, patches, end, patch, pc,
      freader, visited, result>>

----------------------------------------------------------------------------
(* Module constants, patchutils.py:18-24 *)
ANY_DIFF == 0
CONTEXT_DIFF == 1
NORMAL_DIFF == 2
ED_DIFF == 3
NEW_CONTEXT_DIFF == 4
UNI_DIFF == 5
GIT_BINARY_DIFF == 6

(* Reader.tab_size, patchutils.py:80 *)
tab_size == 8

----------------------------------------------------------------------------
(* Nullable values and Python string primitives *)
None == <<>>
Some(x) == <<x>>
IsNone(o) == Len(o) = 0
Val(o) == o[1]

Min(a, b) == IF a < b THEN a ELSE b
Max(a, b) == IF a > b THEN a ELSE b

(* s[i:] and s[i:j] for 0 <= i *)
Slice(s, i) == SubSeq(s, i + 1, Len(s))
Slice2(s, i, j) == SubSeq(s, i + 1, j)

(* s.startswith(p, i) *)
StartsWith(s, p, i) ==
    /\ i + Len(p) <= Len(s)
    /\ SubSeq(s, i + 1, i + Len(p)) = p

(* s.endswith(p) *)
EndsWith(s, p) ==
    /\ Len(p) <= Len(s)
    /\ SubSeq(s, Len(s) - Len(p) + 1, Len(s)) = p

DigitChars == {"0", "1", "2", "3", "4", "5", "6", "7", "8", "9"}
HexChars == DigitChars \cup {"a", "b", "c", "d", "e", "f"}
(* the ASCII characters matched by \s and removed by strip() *)
(* "BEL", "BS" and "VT" stand for the characters \a, \b and \v *)
SpaceChars == {" ", "\t", "\n", "\r", "\f", "VT"}

DigitVal(c) ==
    CASE c = "0" -> 0 [] c = "1" -> 1 [] c = "2" -> 2 [] c = "3" -> 3
      [] c = "4" -> 4 [] c = "5" -> 5 [] c = "6" -> 6 [] c = "7" -> 7
      [] c = "8" -> 8 [] c = "9" -> 9

(* number of leading characters of s[i:] that belong to the class cls *)
RECURSIVE Span(_, _, _)
Span(s, i, cls) ==
    IF i < Len(s) /\ s[i + 1] \in cls THEN 1 + Span(s, i + 1, cls) ELSE 0

(* int(digits) for a non-empty sequence of decimal digits *)
RECURSIVE ToInt(_)
ToInt(ds) ==
    IF Len(ds) = 0 THEN 0
    ELSE 10 * ToInt(SubSeq(ds, 1, Len(ds) - 1)) + DigitVal(ds[Len(ds)])

(* s.lstrip() and s.rstrip() *)
lstrip(s) == Slice(s, Span(s, 0, SpaceChars))

RECURSIVE rstrip(_)
rstrip(s) ==
    IF Len(s) > 0 /\ s[Len(s)] \in SpaceChars
    THEN rstrip(SubSeq(s, 1, Len(s) - 1))
    ELSE s

(* the character s[i], or "" past the end *)
CharAt(s, i) == IF i >= 0 /\ i < Len(s) THEN s[i + 1] ELSE ""

(* number of leading characters of s[i:] other than newline *)
RECURSIVE SpanDot(_, _)
SpanDot(s, i) ==
    IF i < Len(s) /\ s[i + 1] # "\n" THEN 1 + SpanDot(s, i + 1) ELSE 0

(* the text matched by '.*' from index i: up to the next newline *)
DotStar(s, i) == Slice2(s, i, i + SpanDot(s, i))

(* the trailer '[ \t]*\r?\n' of re_cmd and re_edcmd, matched at index i *)
MatchEol(s, i) ==
    LET j == i + Span(s, i, {" ", "\t"})
        k == IF StartsWith(s, <<"\r">>, j) THEN j + 1 ELSE j
    IN  StartsWith(s, <<"\n">>, k)

----------------------------------------------------------------------------
(* Reader, LineReader and FileReader *)

(* LineReader._get_line *)
LineReader__get_line(rd) ==
    IF rd.lineno >= Len(lines)
    THEN [line |-> None, rd |-> rd]
    ELSE [line |-> Some(lines[rd.lineno + 1]),
          rd |-> [rd EXCEPT !.lineno = @ + 1]]

(* the content of the file f: the lines of the input one after the other *)
RECURSIVE Flatten(_)
Flatten(ls) == IF Len(ls) = 0 THEN <<>> ELSE Head(ls) \o Flatten(Tail(ls))
Content == Flatten(lines)

(* f.readline() at offset pos: the text up to and with the next newline, *)
(* or up to the end of the file                                          *)
RECURSIVE ReadLineEnd(_, _)
ReadLineEnd(text, pos) ==
    IF pos >= Len(text) THEN Len(text)
    ELSE IF text[pos + 1] = "\n" THEN pos + 1
    ELSE ReadLineEnd(text, pos + 1)
readline(pos) == Slice2(Content, pos, ReadLineEnd(Content, pos))

(* FileReader._get_line; f is never None here, and f.tell() is the *)
(* field tell                                                      *)
FileReader__get_line(rd) ==
    IF Len(readline(rd.tell)) = 0
    THEN [line |-> None, rd |-> rd]
    ELSE [line |-> Some(readline(rd.tell)),
          rd |-> [rd EXCEPT
                    !.tell = @ + Len(readline(rd.tell)),
                    !.lineno = @ + 1,
                    !.line2pos =
                        IF Len(@) <= rd.lineno + 1
                        THEN Append(@, rd.tell + Len(readline(rd.tell)))
                        ELSE @]]

(* self._get_line() of the reader's class: a FileReader has line2pos *)
_get_line(rd) ==
    IF "line2pos" \in DOMAIN rd THEN FileReader__get_line(rd)
    ELSE LineReader__get_line(rd)

(* the 'for i in range(len(line))' loop of pget_line: the index at which *)
(* the loop stops (the last index when it runs to the end)               *)
RECURSIVE IndentLoop(_, _, _, _)
IndentLoop(line, i, curindent, indent) ==
    IF i >= Len(line) THEN Len(line) - 1
    ELSE IF curindent >= indent THEN i
    ELSE IF line[i + 1] = "\t"
         THEN IndentLoop(line, i + 1,
                         curindent + tab_size - (curindent % tab_size), indent)
    ELSE IF line[i + 1] \in {" ", "X"}
         THEN IndentLoop(line, i + 1, curindent + 1, indent)
    ELSE i

(* the 'while nesting > 0 and line.startswith("- ", i)' loop of pget_line *)
RECURSIVE NestingLoop(_, _, _)
NestingLoop(line, i, nesting) ==
    IF nesting > 0 /\ StartsWith(line, <<"-", " ">>, i)
    THEN NestingLoop(line, i + 2, nesting - 1)
    ELSE i

(* Reader.pget_line: [ok, rd] *)
RECURSIVE pget_line(_, _, _, _, _)
pget_line(rd, indent, rfc934, strip, skip_comments) ==
    LET got == _get_line(rd)
    IN  IF IsNone(got.line) THEN [ok |-> FALSE, rd |-> got.rd]
        ELSE
          LET line == Val(got.line)
              i == NestingLoop(line, IndentLoop(line, 0, 0, indent), rfc934)
          IN  IF skip_comments /\ StartsWith(line, <<"#">>, i)
              THEN pget_line(got.rd, indent, rfc934, strip, skip_comments)
              ELSE IF ~EndsWith(line, <<"\n">>)
              THEN [ok |-> FALSE, rd |-> got.rd]
              ELSE IF strip /\ EndsWith(line, <<"\r", "\n">>)
              THEN [ok |-> TRUE,
                    rd |-> [got.rd EXCEPT
                              !.line = Slice2(line, i, Len(line) - 2)
                                         \o <<"\n">>]]
              ELSE [ok |-> TRUE,
                    rd |-> [got.rd EXCEPT !.line = Slice(line, i)]]

(* Reader.get_line *)
get_line(rd, skip_comments) ==
    pget_line(rd, rd.indent, rd.rfc934_nesting, rd.strip_cr, skip_comments)

(* Reader.get_raw_line *)
get_raw_line(rd) == pget_line(rd, 0, 0, FALSE, TRUE)

(* LineReader.get_pos and set_pos *)
get_pos(rd, lineoff) == rd.lineno + lineoff
set_pos(rd, pos) == [rd EXCEPT !.lineno = pos]

(* LineReader.get_raw_lines(start, end): lines[start:stop], stop nullable *)
PyIndex(k, n) == IF k < 0 THEN Max(n + k, 0) ELSE Min(k, n)
get_raw_lines(start, stop) ==
    LET n == Len(lines)
        a == PyIndex(start, n)
        b == IF IsNone(stop) THEN n ELSE PyIndex(Val(stop), n)
    IN  SubSeq(lines, a + 1, b)

(* FileReader.get_pos *)
FileReader_get_pos(rd, lineoff) == rd.lineno + lineoff

(* set_pos that records the line number and leaves the file where it is *)
FileReader_set_pos_without_seek(rd, pos) ==
    IF pos >= Len(rd.line2pos) \/ pos < 0 - Len(rd.line2pos)
    THEN [raised |-> TRUE, rd |-> rd]
    ELSE [raised |-> FALSE, rd |-> [rd EXCEPT !.lineno = pos]]

(* FileReader.set_pos: [raised, rd]; line2pos[pos] raises IndexError for *)
(* a pos outside the list and counts a negative pos from its end         *)
FileReader_set_pos(rd, pos) ==
    IF pos >= Len(rd.line2pos) \/ pos < 0 - Len(rd.line2pos)
    THEN [raised |-> TRUE, rd |-> rd]
    ELSE [raised |-> FALSE,
          rd |-> [rd EXCEPT
                    !.tell = IF pos < 0
                             THEN rd.line2pos[Len(rd.line2pos) + pos + 1]
                             ELSE rd.line2pos[pos + 1],
                    !.lineno = pos]]

(* the loop of FileReader.get_raw_lines: [lines, rd] *)
RECURSIVE RawLinesLoop(_, _, _)
RawLinesLoop(rd, stop, got) ==
    IF Some(rd.lineno) = stop \/ IsNone(FileReader__get_line(rd).line)
    THEN [lines |-> got, rd |-> rd]
    ELSE RawLinesLoop(FileReader__get_line(rd).rd, stop,
                      Append(got, Val(FileReader__get_line(rd).line)))

(* the end of FileReader.get_raw_lines: set_pos(oldpos) and the return *)
RawLinesReturn(loop, oldpos) ==
    [raised |-> FileReader_set_pos(loop.rd, oldpos).raised,
     lines |-> IF FileReader_set_pos(loop.rd, oldpos).raised THEN <<>>
               ELSE loop.lines,
     rd |-> FileReader_set_pos(loop.rd, oldpos).rd]

(* FileReader.get_raw_lines(start, end): [raised, lines, rd], stop nullable *)
FileReader_get_raw_lines(rd, start, stop) ==
    IF FileReader_set_pos(rd, start).raised
    THEN [raised |-> TRUE, lines |-> <<>>, rd |-> rd]
    ELSE RawLinesReturn(
           RawLinesLoop(FileReader_set_pos(rd, start).rd, stop, <<>>),
           FileReader_get_pos(rd, 0))

(* the loop of Reader.strip_indent: [i, indent] *)
RECURSIVE StripLoop(_, _, _)
StripLoop(line, i, indent) ==
    IF i >= Len(line) THEN [i |-> Len(line) - 1, indent |-> indent]
    ELSE IF line[i + 1] = "\t"
         THEN StripLoop(line, i + 1, indent + tab_size - (indent % tab_size))
    ELSE IF line[i + 1] \in {" ", "X"}
         THEN StripLoop(line, i + 1, indent + 1)
    ELSE [i |-> i, indent |-> indent]

(* Reader.strip_indent: [indent, rd] *)
strip_indent(rd) ==
    LET r == StripLoop(rd.line, 0, 0)
    IN  [indent |-> r.indent, rd |-> [rd EXCEPT !.line = Slice(rd.line, r.i)]]

----------------------------------------------------------------------------
(* Lexical helpers *)

OctChars == {"0", "1", "2", "3", "4", "5", "6", "7"}
HexCharsAny == HexChars \cup {"A", "B", "C", "D", "E", "F"}

HexVal(c) ==
    CASE c \in DigitChars -> DigitVal(c)
      [] c \in {"a", "A"} -> 10 [] c \in {"b", "B"} -> 11
      [] c \in {"c", "C"} -> 12 [] c \in {"d", "D"} -> 13
      [] c \in {"e", "E"} -> 14 [] c \in {"f", "F"} -> 15

(* int(ds, base) for a sequence of digits of that base *)
RECURSIVE ToIntBase(_, _)
ToIntBase(ds, base) ==
    IF Len(ds) = 0 THEN 0
    ELSE base * ToIntBase(SubSeq(ds, 1, Len(ds) - 1), base) + HexVal(ds[Len(ds)])

(* fetchmode: int(spec, base=8), 0 on ValueError.  int() strips         *)
(* whitespace and accepts a sign and a '0o' prefix.                     *)
fetchmode(spec) ==
    LET t == rstrip(lstrip(spec))
        signed == CharAt(t, 0) \in {"+", "-"}
        u == IF signed THEN Slice(t, 1) ELSE t
        v == IF StartsWith(u, <<"0", "o">>, 0) \/ StartsWith(u, <<"0", "O">>, 0)
             THEN Slice(u, 2) ELSE u
    IN  IF Len(v) > 0 /\ Span(v, 0, OctChars) = Len(v)
        THEN IF CharAt(t, 0) = "-" THEN 0 - ToIntBase(v, 8) ELSE ToIntBase(v, 8)
        ELSE 0

(* chr(n); "GRAVE" stands for the backquote, other codes keep their number *)
Printable ==
    <<" ", "!", "\"", "#", "$", "%", "&", "'", "(", ")", "*", "+", ",", "-",
      ".", "/", "0", "1", "2", "3", "4", "5", "6", "7", "8", "9", ":", ";",
      "<", "=", ">", "?", "@", "A", "B", "C", "D", "E", "F", "G", "H", "I",
      "J", "K", "L", "M", "N", "O", "P", "Q", "R", "S", "T", "U", "V", "W",
      "X", "Y", "Z", "[", "\\", "]", "^", "_", "GRAVE", "a", "b", "c", "d", "e",
      "f", "g", "h", "i", "j", "k", "l", "m", "n", "o", "p", "q", "r", "s",
      "t", "u", "v", "w", "x", "y", "z", "{", "|", "}", "~">>

chr(n) ==
    CASE n >= 32 /\ n <= 126 -> Printable[n - 31]
      [] n = 7 -> "BEL" [] n = 8 -> "BS" [] n = 9 -> "\t" [] n = 10 -> "\n"
      [] n = 11 -> "VT" [] n = 12 -> "\f" [] n = 13 -> "\r"
      [] OTHER -> "chr" \o ToString(n)

(* re_cstring: index just past the closing quote of a leading C string, *)
(* or -1 when the text does not match                                  *)
RECURSIVE CStringEnd(_, _)
CStringEnd(s, i) ==
    IF i >= Len(s) THEN -1
    ELSE IF s[i + 1] = "\"" THEN i + 1
    ELSE IF s[i + 1] = "\\"
         THEN IF i + 1 < Len(s) /\ s[i + 2] # "\n"
              THEN CStringEnd(s, i + 2) ELSE -1
    ELSE CStringEnd(s, i + 1)

(* re_unescape.sub(unescape, s): [ok, text]; ok is FALSE when unescape *)
(* raises ValueError                                                   *)
RECURSIVE UnescapeSub(_, _)
UnescapeSub(s, i) ==
    IF i >= Len(s) THEN [ok |-> TRUE, text |-> <<>>]
    ELSE IF s[i + 1] # "\\" \/ i + 1 >= Len(s) \/ CharAt(s, i + 1) = "\n"
    THEN LET rest == UnescapeSub(s, i + 1)
         IN  [ok |-> rest.ok, text |-> <<s[i + 1]>> \o rest.text]
    ELSE
      LET noct == Min(Span(s, i + 1, OctChars), 3)
          nhex == IF CharAt(s, i + 1) = "x"
                  THEN Span(s, i + 2, HexCharsAny) ELSE 0
          c == CharAt(s, i + 1)
          table == [k \in {"a", "b", "f", "n", "r", "t", "v", "\\", "\""} |->
                     CASE k = "a" -> "BEL" [] k = "b" -> "BS" [] k = "f" -> "\f"
                       [] k = "n" -> "\n" [] k = "r" -> "\r" [] k = "t" -> "\t"
                       [] k = "v" -> "VT" [] k = "\\" -> "\\" [] k = "\"" -> "\""]
          one(ch, len) ==
              LET rest == UnescapeSub(s, i + 1 + len)
              IN  [ok |-> rest.ok, text |-> <<ch>> \o rest.text]
      IN  IF noct > 0
          THEN one(chr(ToIntBase(Slice2(s, i + 1, i + 1 + noct), 8) % 256), noct)
          ELSE IF nhex > 0
          THEN one(chr(ToIntBase(Slice2(s, i + 2, i + 2 + nhex), 16) % 256),
                   1 + nhex)
          ELSE IF c \in DOMAIN table THEN one(table[c], 1)
          ELSE [ok |-> FALSE, text |-> <<>>]

(* parse_c_name: <<name, tail>>, name nullable *)
parse_c_name(spec) ==
    LET e == IF StartsWith(spec, <<"\"">>, 0) THEN CStringEnd(spec, 1) ELSE -1
        u == UnescapeSub(Slice2(spec, 0, e), 0)
    IN  IF e < 0 THEN <<None, spec>>
        ELSE IF u.ok THEN <<Some(u.text), DotStar(spec, e)>>
        ELSE <<None, spec>>

(* parse_name: <<name, tail>>, name nullable *)
parse_name(spec0, tabterm) ==
    LET spec == lstrip(spec0)
        tab == Span(spec, 0, {c \in {spec[k] : k \in 1..Len(spec)} : c # "\t"})
        n == Span(spec, 0, {c \in {spec[k] : k \in 1..Len(spec)} :
                               c \notin SpaceChars})
        m == n + Span(spec, n, SpaceChars)
    IN  IF StartsWith(spec, <<"\"">>, 0) THEN parse_c_name(spec)
        ELSE IF tabterm /\ tab < Len(spec)
        THEN <<Some(rstrip(Slice2(spec, 0, tab))), DotStar(spec, tab + 1)>>
        ELSE <<Some(Slice2(spec, 0, n)), DotStar(spec, m)>>

(* re_cmd.match(line): [ok, g1, g2, g3, g4, g5]; g2 and g5 nullable *)
re_cmd(line) ==
    LET n1 == Span(line, 0, DigitChars)
        has2 == CharAt(line, n1) = "," /\ Span(line, n1 + 1, DigitChars) > 0
        n2 == IF has2 THEN Span(line, n1 + 1, DigitChars) ELSE 0
        i3 == IF has2 THEN n1 + 1 + n2 ELSE n1
        n4 == Span(line, i3 + 1, DigitChars)
        i4 == i3 + 1 + n4
        has5 == CharAt(line, i4) = "," /\ Span(line, i4 + 1, DigitChars) > 0
        n5 == IF has5 THEN Span(line, i4 + 1, DigitChars) ELSE 0
        i5 == IF has5 THEN i4 + 1 + n5 ELSE i4
        ok == /\ n1 > 0
              /\ CharAt(line, i3) \in {"a", "c", "d"}
              /\ n4 > 0
              /\ MatchEol(line, i5)
    IN  IF ~ok THEN [ok |-> FALSE]
        ELSE [ok |-> TRUE,
              g1 |-> Slice2(line, 0, n1),
              g2 |-> IF has2 THEN Some(Slice2(line, n1 + 1, i3)) ELSE None,
              g3 |-> CharAt(line, i3),
              g4 |-> Slice2(line, i3 + 1, i4),
              g5 |-> IF has5 THEN Some(Slice2(line, i4 + 1, i5)) ELSE None]

(* the alternative '[aicd]|s/.//' of re_edcmd matched at index i: the *)
(* matched text, or <<>> when it does not match                       *)
EdLetter(line, i, letters) ==
    IF CharAt(line, i) \in letters THEN <<line[i + 1]>>
    ELSE IF /\ StartsWith(line, <<"s", "/">>, i)
            /\ CharAt(line, i + 2) \notin {"", "\n"}
            /\ StartsWith(line, <<"/", "/">>, i + 3)
         THEN Slice2(line, i, i + 5)
    ELSE <<>>

(* get_edcmd: the command text, nullable *)
get_edcmd(line) ==
    LET n1 == Span(line, 0, DigitChars)
        l1 == EdLetter(line, n1, {"a", "i", "c", "d"})
        n2 == Span(line, n1 + 1, DigitChars)
        i2 == n1 + 1 + n2
        l2 == EdLetter(line, i2, {"c", "d"})
    IN  IF Len(l1) > 0 /\ MatchEol(line, n1 + Len(l1)) THEN Some(l1)
        ELSE IF /\ n1 > 0 /\ CharAt(line, n1) = "," /\ n2 > 0
                /\ Len(l2) > 0 /\ MatchEol(line, i2 + Len(l2))
        THEN Some(l2)
        ELSE None

(* Python's 'x in s' for strings: x occurs in s as a substring *)
Contains(s, x) == \E i \in 0..Len(s) : StartsWith(s, x, i)

(* re_gitindex.match(text): [ok, mode], mode nullable *)
re_gitindex(text) ==
    LET h1 == Span(text, 0, HexChars)
        h2 == Span(text, h1 + 2, HexChars)
        i == h1 + 2 + h2
        w == Span(text, i, SpaceChars)
    IN  IF ~(h1 > 0 /\ StartsWith(text, <<".", ".">>, h1) /\ h2 > 0)
        THEN [ok |-> FALSE, mode |-> None]
        ELSE IF w > 0
        THEN [ok |-> TRUE, mode |-> Some(DotStar(text, i + w))]
        ELSE [ok |-> i = Len(text), mode |-> None]

(* re_unihunk.match(line): [ok, g1, g2, g3, g4, g5]; g2, g4, g5 nullable *)
re_unihunk(line) ==
    LET n1 == Span(line, 4, DigitChars)
        i1 == 4 + n1
        has2 == CharAt(line, i1) = "," /\ Span(line, i1 + 1, DigitChars) > 0
        n2 == IF has2 THEN Span(line, i1 + 1, DigitChars) ELSE 0
        i2 == IF has2 THEN i1 + 1 + n2 ELSE i1
        n3 == Span(line, i2 + 2, DigitChars)
        i3 == i2 + 2 + n3
        has4 == CharAt(line, i3) = "," /\ Span(line, i3 + 1, DigitChars) > 0
        n4 == IF has4 THEN Span(line, i3 + 1, DigitChars) ELSE 0
        i4 == IF has4 THEN i3 + 1 + n4 ELSE i3
        ok == /\ StartsWith(line, <<"@", "@", " ", "-">>, 0)
              /\ n1 > 0
              /\ StartsWith(line, <<" ", "+">>, i2)
              /\ n3 > 0
              /\ StartsWith(line, <<" ", "@", "@">>, i4)
    IN  IF ~ok THEN [ok |-> FALSE]
        ELSE [ok |-> TRUE,
              g1 |-> Slice2(line, 4, i1),
              g2 |-> IF has2 THEN Some(Slice2(line, i1 + 1, i2)) ELSE None,
              g3 |-> Slice2(line, i2 + 2, i3),
              g4 |-> IF has4 THEN Some(Slice2(line, i3 + 1, i4)) ELSE None,
              g5 |-> IF CharAt(line, i4 + 3) = " "
                     THEN Some(DotStar(line, i4 + 4)) ELSE None]

----------------------------------------------------------------------------
(* Data model: FileInfo and Header *)

(* dateutil.parser.parse, the date collaborator: whether the text parses. *)
(* A text that begins with a four-digit year parses; the other texts the  *)
(* model meets (names, quoted strings, empty text) do not.                *)
dateutil_parse(timestr) == Span(timestr, 0, DigitChars) >= 4

(* FileInfo() *)
FileInfo ==
    [name |-> None, timestr |-> None, stamp |-> None, mode |-> None,
     copy |-> FALSE, rename |-> FALSE]

(* FileInfo.set_timestr, timestr nullable *)
set_timestr(fi, timestr) ==
    IF ~IsNone(timestr) /\ Len(Val(timestr)) > 0
    THEN [fi EXCEPT !.timestr = Some(rstrip(Val(timestr))),
                    !.stamp = IF dateutil_parse(rstrip(Val(timestr)))
                              THEN Some("parsed") ELSE None]
    ELSE [fi EXCEPT !.timestr = timestr, !.stamp = None]

(* FileInfo.set_name, name nullable *)
set_name(fi, name) ==
    IF /\ ~IsNone(name)
       /\ Len(Val(name)) > 0
       /\ Val(name) = <<"/", "d", "e", "v", "/", "n", "u", "l", "l">>
    THEN [fi EXCEPT !.name = None, !.stamp = Some("epoch")]
    ELSE [fi EXCEPT !.name = name]

(* FileInfo.set_spec *)
set_spec(fi, spec) ==
    LET p == parse_name(spec, TRUE)
    IN  set_name(set_timestr(fi, Some(p[2])), p[1])

(* Header() *)
Header ==
    [old |-> FileInfo, new |-> FileInfo, index |-> None,
     begin |-> None, end |-> None]

----------------------------------------------------------------------------
(* PatchFile.add_patch: the header scan *)

(* the scan started with need_header as it was passed, whatever the *)
(* diff_type                                                        *)
ScanInit_as_passed(rd) ==
    [rd |-> [rd EXCEPT !.rfc934_nesting = 0],
     need_header |-> need_header,
     edcmdpos |-> None, git_diff |-> FALSE, exthdrs |-> FALSE,
     hdr |-> Header, patch |-> "None", start |-> 0, brk |-> FALSE,
     indent |-> 0, line |-> <<>>, strip_cr |-> FALSE]

(* the local variables of add_patch before its loop; rd is the reader, *)
(* patch is the class of the patch found ("None" while there is none)  *)
ScanInit(rd) ==
    [rd |-> [rd EXCEPT !.rfc934_nesting = 0],
     need_header |-> IF diff_type \in {ED_DIFF, NORMAL_DIFF}
                     THEN FALSE ELSE need_header,
     edcmdpos |-> None, git_diff |-> FALSE, exthdrs |-> FALSE,
     hdr |-> Header, patch |-> "None", start |-> 0, brk |-> FALSE,
     indent |-> 0, line |-> <<>>, strip_cr |-> FALSE]

Str_old_mode == <<"o", "l", "d", " ", "m", "o", "d", "e", " ">>
Str_new_mode == <<"n", "e", "w", " ", "m", "o", "d", "e", " ">>
Str_deleted_file_mode ==
    <<"d", "e", "l", "e", "t", "e", "d", " ", "f", "i", "l", "e", " ",
      "m", "o", "d", "e", " ">>
Str_new_file_mode ==
    <<"n", "e", "w", " ", "f", "i", "l", "e", " ", "m", "o", "d", "e", " ">>
Str_rename_from ==
    <<"r", "e", "n", "a", "m", "e", " ", "f", "r", "o", "m", " ">>
Str_rename_to == <<"r", "e", "n", "a", "m", "e", " ", "t", "o", " ">>
Str_copy_from == <<"c", "o", "p", "y", " ", "f", "r", "o", "m", " ">>
Str_copy_to == <<"c", "o", "p", "y", " ", "t", "o", " ">>
Str_index == <<"i", "n", "d", "e", "x", " ">>
Str_Index == <<"I", "n", "d", "e", "x", ":">>
Str_Prereq == <<"P", "r", "e", "r", "e", "q", ":">>
Str_diff_git == <<"d", "i", "f", "f", " ", "-", "-", "g", "i", "t", " ">>
Str_GIT_binary ==
    <<"G", "I", "T", " ", "b", "i", "n", "a", "r", "y", " ",
      "p", "a", "t", "c", "h">>
Str_stars == <<"*", "*", "*", "*", "*", "*", "*", "*">>

(* add_patch lines 532-551: the normal and the ed trigger *)
NormalBranch(s) ==
    LET g == get_raw_line([s.rd EXCEPT !.strip_cr = s.strip_cr])
        si == strip_indent(g.rd)
    IN  IF ~g.ok THEN [s EXCEPT !.rd = g.rd, !.brk = TRUE]
        ELSE IF \/ StartsWith(si.rd.line, <<"<", " ">>, 0)
                \/ StartsWith(si.rd.line, <<">", " ">>, 0)
        THEN [s EXCEPT !.rd = [si.rd EXCEPT !.indent = si.indent],
                       !.indent = si.indent, !.line = si.rd.line,
                       !.start = get_pos(si.rd, -2), !.patch = "Normal"]
        ELSE [s EXCEPT !.rd = si.rd, !.indent = si.indent,
                       !.line = si.rd.line]

EdBranch(s) ==
    [s EXCEPT !.edcmdpos = Some(get_pos(s.rd, -1)),
              !.rd = [s.rd EXCEPT !.indent = s.indent,
                                  !.strip_cr = s.strip_cr]]

(* add_patch lines 562-577: 'Index:' and 'Prereq:' (the revision that *)
(* 'Prereq:' stores on the PatchFile is read nowhere and not kept)    *)
BeginIfNone(s) ==
    IF IsNone(s.hdr.begin) THEN Some(get_pos(s.rd, -1)) ELSE s.hdr.begin

IndexBranch(s) ==
    LET text == lstrip(Slice(s.line, 6))
        c == parse_c_name(text)
        index == IF StartsWith(text, <<"\"">>, 0)
                 THEN [quoted |-> TRUE, name |-> c[1], text |-> c[2]]
                 ELSE [quoted |-> FALSE, name |-> None, text |-> text]
    IN  [s EXCEPT !.hdr.begin = BeginIfNone(s),
                  !.hdr.index = Some(index),
                  !.rd.strip_cr = s.strip_cr,
                  !.need_header = FALSE]

PrereqBranch(s) == [s EXCEPT !.hdr.begin = BeginIfNone(s)]

(* add_patch lines 578-596: 'diff --git ' *)
DiffGitBranch(s) ==
    IF s.exthdrs
    THEN [s EXCEPT !.hdr.end = Some(get_pos(s.rd, -2)),
                   !.start = get_pos(s.rd, -1),
                   !.patch = "Uni"]
    ELSE
      LET p1 == parse_name(Slice(s.line, 11), FALSE)
          p2 == parse_name(lstrip(p1[2]), FALSE)
          isspace(t) == Len(t) > 0 /\ Span(t, 0, SpaceChars) = Len(t)
          both == /\ ~IsNone(p1[1]) /\ Len(p1[2]) > 0
                  /\ isspace(p2[2])
      IN  [s EXCEPT !.hdr.begin = Some(get_pos(s.rd, -1)),
                    !.hdr.old.name = IF both THEN p1[1] ELSE None,
                    !.hdr.new.name = IF both THEN p2[1] ELSE None,
                    !.git_diff = TRUE,
                    !.need_header = FALSE]

(* add_patch lines 597-603: git 'index ' *)
GitIndexBranch(s) ==
    LET m == re_gitindex(Slice(s.line, 6))
    IN  IF ~m.ok THEN s
        ELSE IF IsNone(m.mode) THEN [s EXCEPT !.exthdrs = TRUE]
        ELSE [s EXCEPT !.hdr.old.mode = Some(fetchmode(Val(m.mode))),
                       !.hdr.new.mode = Some(fetchmode(Val(m.mode))),
                       !.exthdrs = TRUE]

(* add_patch lines 632-643: the '--- ' line under RFC 934 quoting *)
RECURSIVE QuoteLoop(_, _)
QuoteLoop(line, i) ==
    IF StartsWith(line, <<"-", " ">>, i) THEN QuoteLoop(line, i + 2) ELSE i

OldBranch(s) ==
    LET i == QuoteLoop(s.line, 0)
        old == set_spec(s.hdr.old, Slice(s.line, i + 4))
    IN  IF ~StartsWith(s.line, <<"-", "-", "-", " ">>, i) THEN s
        ELSE [s EXCEPT !.hdr.begin = BeginIfNone(s),
                       !.hdr.old = old,
                       !.rd.rfc934_nesting =
                           IF ~IsNone(old.stamp) THEN i \div 2 ELSE @,
                       !.rd.strip_cr = s.strip_cr,
                       !.need_header = FALSE]

(* add_patch lines 532-643: the chain of branches on the current line *)
HeaderBranch(s) ==
    LET line == s.line
        git(prefix) == s.git_diff /\ StartsWith(line, prefix, 0)
    IN  IF /\ diff_type \in {ANY_DIFF, NORMAL_DIFF}
           /\ ~s.need_header
           /\ re_cmd(line).ok
        THEN NormalBranch(s)
        ELSE IF /\ diff_type \in {ANY_DIFF, ED_DIFF}
                /\ ~s.need_header
                /\ IsNone(s.edcmdpos)
                /\ ~IsNone(get_edcmd(line))
        THEN EdBranch(s)
        ELSE IF /\ diff_type \in {ANY_DIFF, CONTEXT_DIFF, NEW_CONTEXT_DIFF}
                /\ StartsWith(line, <<"*", "*", "*", " ">>, 0)
        THEN [s EXCEPT !.hdr.begin = Some(get_pos(s.rd, -1)),
                       !.hdr.new = set_spec(s.hdr.new, Slice(line, 4)),
                       !.need_header = FALSE]
        ELSE IF StartsWith(line, <<"+", "+", "+", " ">>, 0)
        THEN [s EXCEPT !.hdr.new = set_spec(s.hdr.new, Slice(line, 4)),
                       !.rd.strip_cr = s.strip_cr,
                       !.need_header = FALSE]
        ELSE IF StartsWith(line, Str_Index, 0) THEN IndexBranch(s)
        ELSE IF StartsWith(line, Str_Prereq, 0) THEN PrereqBranch(s)
        ELSE IF /\ diff_type \in {ANY_DIFF, UNI_DIFF}
                /\ StartsWith(line, Str_diff_git, 0)
        THEN DiffGitBranch(s)
        ELSE IF git(Str_index) THEN GitIndexBranch(s)
        ELSE IF git(Str_old_mode)
        THEN [s EXCEPT !.hdr.old.mode = Some(fetchmode(Slice(line, 9))),
                       !.exthdrs = TRUE]
        ELSE IF git(Str_new_mode)
        THEN [s EXCEPT !.hdr.new.mode = Some(fetchmode(Slice(line, 9))),
                       !.exthdrs = TRUE]
        ELSE IF git(Str_deleted_file_mode)
        THEN [s EXCEPT !.hdr.old.mode = Some(fetchmode(Slice(line, 9))),
                       !.exthdrs = TRUE]
        ELSE IF git(Str_new_file_mode)
        THEN [s EXCEPT !.hdr.new.mode = Some(fetchmode(Slice(line, 14))),
                       !.exthdrs = TRUE]
        ELSE IF git(Str_rename_from)
        THEN [s EXCEPT !.hdr.old.rename = TRUE, !.exthdrs = TRUE]
        ELSE IF git(Str_rename_to)
        THEN [s EXCEPT !.hdr.new.rename = TRUE, !.exthdrs = TRUE]
        ELSE IF git(Str_copy_from)
        THEN [s EXCEPT !.hdr.old.copy = TRUE, !.exthdrs = TRUE]
        ELSE IF git(Str_copy_to)
        THEN [s EXCEPT !.hdr.new.copy = TRUE, !.exthdrs = TRUE]
        ELSE IF git(Str_GIT_binary)
        THEN [s EXCEPT !.hdr.end = Some(get_pos(s.rd, -2)),
                       !.start = get_pos(s.rd, -1),
                       !.patch = "GitBinary"]
        ELSE OldBranch(s)

(* add_patch lines 655-678: the '********' divider of a context diff *)
ContextTrigger(s) ==
    LET g == get_raw_line(s.rd)
        si == strip_indent(g.rd)
        line == si.rd.line
        s1 == [s EXCEPT !.rd = si.rd, !.indent = si.indent, !.line = line]
    IN  IF ~g.ok THEN [s EXCEPT !.rd = g.rd, !.brk = TRUE]
        ELSE IF s.indent = si.indent /\ StartsWith(line, <<"*", "*", "*", " ">>, 0)
        THEN [s1 EXCEPT !.hdr.old = s.hdr.new,
                        !.hdr.new = s.hdr.old,
                        !.rd.indent = si.indent,
                        !.rd.strip_cr = s.strip_cr,
                        !.hdr.end = Some(get_pos(si.rd, -2)),
                        !.start = get_pos(si.rd, -1),
                        !.patch = IF \/ EndsWith(line, <<"*", "\n">>)
                                     \/ EndsWith(line, <<"*", "\r", "\n">>)
                                  THEN "NewContext" ELSE "Context"]
        ELSE s1

(* the triggers with the '@@ -' trigger admitted under every diff_type *)
HunkTrigger_any_type(s) ==
    IF s.brk \/ s.need_header THEN s
    ELSE IF ~IsNone(s.edcmdpos) /\ s.line = <<".", "\n">>
    THEN [s EXCEPT !.start = Val(s.edcmdpos), !.patch = "Ed"]
    ELSE IF StartsWith(s.line, <<"@", "@", " ", "-">>, 0)
    THEN [s EXCEPT !.rd.indent = s.indent,
                   !.hdr.end = Some(get_pos(s.rd, -2)),
                   !.start = get_pos(s.rd, -1),
                   !.patch = "Uni"]
    ELSE IF /\ diff_type \in {ANY_DIFF, CONTEXT_DIFF, NEW_CONTEXT_DIFF}
            /\ StartsWith(s.line, Str_stars, 0)
    THEN ContextTrigger(s)
    ELSE s

(* add_patch lines 645-678: the triggers once no header is needed *)
HunkTrigger(s) ==
    IF s.brk \/ s.need_header THEN s
    ELSE IF ~IsNone(s.edcmdpos) /\ s.line = <<".", "\n">>
    THEN [s EXCEPT !.start = Val(s.edcmdpos), !.patch = "Ed"]
    ELSE IF /\ diff_type \in {ANY_DIFF, UNI_DIFF}
            /\ StartsWith(s.line, <<"@", "@", " ", "-">>, 0)
    THEN [s EXCEPT !.rd.indent = s.indent,
                   !.hdr.end = Some(get_pos(s.rd, -2)),
                   !.start = get_pos(s.rd, -1),
                   !.patch = "Uni"]
    ELSE IF /\ diff_type \in {ANY_DIFF, CONTEXT_DIFF, NEW_CONTEXT_DIFF}
            /\ StartsWith(s.line, Str_stars, 0)
    THEN ContextTrigger(s)
    ELSE s

(* add_patch lines 528-678: the scan loop *)
RECURSIVE ScanLoop(_)
ScanLoop(s) ==
    IF s.patch # "None" \/ s.brk THEN s
    ELSE
      LET g == get_raw_line(s.rd)
          si == strip_indent(g.rd)
          s1 == [s EXCEPT !.rd = si.rd, !.indent = si.indent,
                          !.line = si.rd.line,
                          !.strip_cr = EndsWith(si.rd.line, <<"\r", "\n">>)]
      IN  IF ~g.ok THEN [s EXCEPT !.rd = g.rd]
          ELSE ScanLoop(HunkTrigger(HeaderBranch(s1)))

(* the end of the scan that reports "no more patches" for an entry of *)
(* extended headers only                                              *)
ScanEnd_without_exthdrs(s) ==
    IF s.patch # "None" THEN s
    ELSE IF ~IsNone(s.edcmdpos)
    THEN [s EXCEPT !.start = Val(s.edcmdpos), !.patch = "Ed"]
    ELSE s

(* add_patch lines 680-691: the end of the scan without a trigger *)
ScanEnd(s) ==
    IF s.patch # "None" THEN s
    ELSE IF ~IsNone(s.edcmdpos)
    THEN [s EXCEPT !.start = Val(s.edcmdpos), !.patch = "Ed"]
    ELSE IF s.exthdrs
    THEN [s EXCEPT !.hdr.end = Some(get_pos(s.rd, -1)),
                   !.start = get_pos(s.rd, 0),
                   !.patch = "Uni"]
    ELSE s

(* add_patch lines 516-691 run from the reader's state *)
Scan(rd) == ScanEnd(ScanLoop(ScanInit(rd)))

----------------------------------------------------------------------------
(* Hunks and their parsers: each returns [res, rd, hunk] with res "ok",  *)
(* "fail" (the parser returned False) or "raise" (it raised)             *)

(* Hunk() *)
Hunk ==
    [srcline |-> None, dstline |-> None, section |-> None,
     src |-> <<>>, dst |-> <<>>, begin |-> None, end |-> None]

(* Change as a parser that forgets to cut the op character would build it *)
Change_keeps_op(op, text) == [op |-> op, text |-> <<op>> \o text]

(* Change(op, text) *)
Change(op, text) == [op |-> op, text |-> text]

(* NormalHunk.parse; the line counts it computes are used nowhere *)
NormalHunk_parse(rd) ==
    LET g == get_line(rd, TRUE)
        match == re_cmd(g.rd.line)
    IN  IF ~g.ok THEN [res |-> "fail", rd |-> g.rd, hunk |-> Hunk]
        ELSE IF ~match.ok
        THEN [res |-> "fail", rd |-> set_pos(g.rd, get_pos(g.rd, -1)),
              hunk |-> Hunk]
        ELSE [res |-> "ok", rd |-> g.rd,
              hunk |-> [Hunk EXCEPT !.srcline = Some(ToInt(match.g1)),
                                    !.dstline = Some(ToInt(match.g4))]]

(* EdHunk.parse lines 380-384: the body of an 'a', 'i' or 'c' command *)
RECURSIVE EdBody(_, _)
EdBody(rd, hunk) ==
    LET g == get_line(rd, FALSE)
    IN  IF ~g.ok THEN [res |-> "fail", rd |-> g.rd, hunk |-> hunk]
        ELSE IF g.rd.line = <<".", "\n">>
        THEN [res |-> "ok", rd |-> g.rd,
              hunk |-> [hunk EXCEPT !.end = Some(get_pos(g.rd, -1))]]
        ELSE EdBody(g.rd, hunk)

(* EdHunk.parse; 'edcmd in "ds"' raises TypeError when edcmd is None *)
EdHunk_parse(rd) ==
    LET g == get_line(rd, TRUE)
        begin == get_pos(g.rd, -1)
        edcmd == get_edcmd(g.rd.line)
        hunk == [Hunk EXCEPT !.begin = Some(begin)]
    IN  IF ~g.ok THEN [res |-> "fail", rd |-> g.rd, hunk |-> Hunk]
        ELSE IF IsNone(edcmd) THEN [res |-> "raise", rd |-> g.rd, hunk |-> hunk]
        ELSE IF Contains(<<"d", "s">>, Val(edcmd))
        THEN [res |-> "ok", rd |-> g.rd,
              hunk |-> [hunk EXCEPT !.end = Some(begin)]]
        ELSE EdBody(g.rd, hunk)

(* the identity of the object that 'Change(op, text)' constructs while     *)
(* hunk is parsed: the objects of one hunk are numbered in the order of    *)
(* their construction, and a Change in src or dst is the object with its   *)
(* number in the field id                                                  *)
NewChange(hunk, change) ==
    [id |-> Len(hunk.src) + Len(hunk.dst), op |-> change.op,
     text |-> change.text]

(* the context line appended as two Change objects, one for each side *)
AppendBoth_copy(hunk, change) ==
    [hunk EXCEPT !.src = Append(@, change),
                 !.dst = Append(@, [change EXCEPT !.id = @ + 1])]

(* UniHunk.parse lines 447-448: the one Change appended to src and to dst *)
AppendBoth(hunk, change) ==
    [hunk EXCEPT !.src = Append(@, change), !.dst = Append(@, change)]

(* the tolerance applied to hunks of up to 3 missing replacement lines *)
assume_chopped_below_4(repl_lines) == repl_lines < 4

(* UniHunk.parse line 420: a failed read inside the body is taken for *)
(* chopped blank lines                                                 *)
assume_chopped(repl_lines) == repl_lines < 3

(* UniHunk.parse lines 418-456: the body loop *)
RECURSIVE UniBody(_, _, _, _)
UniBody(rd, ptrn_lines, repl_lines, hunk) ==
    IF ~(ptrn_lines > 0 \/ repl_lines > 0)
    THEN [res |-> "ok", rd |-> rd,
          hunk |-> [hunk EXCEPT !.end = Some(get_pos(rd, -1))]]
    ELSE
      LET g == get_line(rd, TRUE)
          failed == ~g.ok \/ Len(g.rd.line) < 1
          line == IF failed THEN <<" ", "\n">> ELSE g.rd.line
          ch == line[1]
          no == [res |-> "fail", rd |-> g.rd, hunk |-> hunk]
      IN  IF failed /\ ~assume_chopped(repl_lines) THEN no
          ELSE IF ch = "-"
          THEN IF ptrn_lines <= 0 THEN no
               ELSE UniBody(g.rd, ptrn_lines - 1, repl_lines,
                      [hunk EXCEPT
                         !.src = Append(@, NewChange(hunk,
                                             Change(ch, Slice(line, 1))))])
          ELSE IF ch \in {" ", "=", "\t", "\n"}
          THEN IF ptrn_lines <= 0 \/ repl_lines <= 0 THEN no
               ELSE LET change == IF ch \in {"\t", "\n"}
                                  THEN Change(" ", line)
                                  ELSE Change(" ", Slice(line, 1))
                    IN  UniBody(g.rd, ptrn_lines - 1, repl_lines - 1,
                          AppendBoth(hunk, NewChange(hunk, change)))
          ELSE IF ch = "+"
          THEN IF repl_lines <= 0 THEN no
               ELSE UniBody(g.rd, ptrn_lines, repl_lines - 1,
                      [hunk EXCEPT
                         !.dst = Append(@, NewChange(hunk,
                                             Change(ch, Slice(line, 1))))])
          ELSE no

(* line_count with an omitted count read as 0 *)
line_count_zero(group) == IF IsNone(group) THEN 0 ELSE ToInt(Val(group))

(* UniHunk.parse lines 402-406 and 410-414: a line count, 1 when omitted *)
line_count(group) == IF IsNone(group) THEN 1 ELSE ToInt(Val(group))

(* the line number of the hunk line as it is written *)
first_line_as_written(start, group) == ToInt(start)

(* UniHunk.parse lines 401-406 and 409-414: srcline and dstline, one more *)
(* than written when the count is given as 0                              *)
first_line(start, group) ==
    IF ~IsNone(group) /\ ToInt(Val(group)) = 0 THEN ToInt(start) + 1
    ELSE ToInt(start)

(* UniHunk.parse *)
UniHunk_parse(rd) ==
    LET g == get_line(rd, TRUE)
        match == re_unihunk(g.rd.line)
        ptrn_lines == line_count(match.g2)
        repl_lines == line_count(match.g4)
        srcline == first_line(match.g1, match.g2)
        dstline == first_line(match.g3, match.g4)
    IN  IF ~g.ok THEN [res |-> "fail", rd |-> g.rd, hunk |-> Hunk]
        ELSE IF ~match.ok
        THEN [res |-> "fail", rd |-> set_pos(g.rd, get_pos(g.rd, -1)),
              hunk |-> Hunk]
        ELSE UniBody(g.rd, ptrn_lines, repl_lines,
               [Hunk EXCEPT !.begin = Some(get_pos(g.rd, -1)),
                            !.srcline = Some(srcline),
                            !.dstline = Some(dstline),
                            !.section = match.g5])

(* ContextHunk.parse, NewContextHunk.parse and GitBinaryPatch.next_hunk *)
(* raise NotImplementedError                                            *)
StubHunk_parse(rd) == [res |-> "raise", rd |-> rd, hunk |-> Hunk]

(* next_hunk().parse(reader) of the patch class *)
hunk_parse(class, rd) ==
    CASE class = "Normal" -> NormalHunk_parse(rd)
      [] class = "Ed" -> EdHunk_parse(rd)
      [] class = "Uni" -> UniHunk_parse(rd)
      [] class \in {"Context", "NewContext", "GitBinary"} -> StubHunk_parse(rd)

(* the diff_type attribute of the patch classes *)
class_diff_type(class) ==
    CASE class = "Normal" -> NORMAL_DIFF
      [] class = "Ed" -> ED_DIFF
      [] class = "Uni" -> UNI_DIFF
      [] class = "Context" -> CONTEXT_DIFF
      [] class = "NewContext" -> NEW_CONTEXT_DIFF
      [] class = "GitBinary" -> GIT_BINARY_DIFF

----------------------------------------------------------------------------
(* The driver: PatchFile.__init__, PatchFile.add_patch and Patch.parse *)

(* the longest input and the most patches the model follows *)
MaxPatches == 4

(* Reader.__init__ and LineReader.__init__ *)
ReaderInit ==
    [lineno |-> 0, indent |-> 0, rfc934_nesting |-> 0, strip_cr |-> FALSE,
     line |-> <<>>]

(* Reader.__init__, FileReader.set and FileReader.__init__ for a file at *)
(* offset 0                                                              *)
FileReaderInit ==
    [lineno |-> 0, indent |-> 0, rfc934_nesting |-> 0, strip_cr |-> FALSE,
     line |-> <<>>, tell |-> 0, line2pos |-> <<0>>]

(* the readers of the reader operations stay as constructed while a *)
(* PatchFile is built                                                *)
ReadersIdle == UNCHANGED <<freader, visited, result>>

(* Patch.__init__ and Patch.parse lines 336-338 for the patch the scan   *)
(* found: NormalPatch() and EdPatch() are built with a fresh Header      *)
NewPatch(s) ==
    LET hdr == IF s.patch \in {"Normal", "Ed"} THEN Header ELSE s.hdr
    IN  [class |-> s.patch, header |-> hdr, hunks |-> <<>>,
         begin |-> IF IsNone(hdr.begin) THEN Some(s.start) ELSE hdr.begin,
         end |-> None]

(* patch_end taken as the position of the next line to read *)
patch_end_next(rd) == get_pos(rd, 0)

(* Patch.parse line 343: the end of the patch *)
patch_end(rd) == get_pos(rd, -1)

(* add_patch up to the call of patch.parse and the start of Patch.parse *)
AddPatch ==
    /\ pc = "scan"
    /\ Len(patches) < MaxPatches
    /\ \E s \in {Scan(reader)} :
           /\ s.patch # "None"
           /\ reader' = set_pos(s.rd, s.start)
           /\ patch' = Some(NewPatch(s))
    /\ pc' = "hunks"
    /\ UNCHANGED <<lines, diff_type, need_header, header, patches, end>>
    /\ ReadersIdle

(* add_patch returns False: PatchFile.__init__ lines 513-514 *)
NoMorePatches ==
    /\ pc = "scan"
    /\ Len(patches) < MaxPatches
    /\ \E s \in {Scan(reader)} :
           /\ s.patch = "None"
           /\ reader' = s.rd
    /\ header' = IF IsNone(header) THEN Some(get_raw_lines(0, None))
                 ELSE header
    /\ pc' = "done"
    /\ UNCHANGED <<lines, diff_type, need_header, patches, end, patch>>
    /\ ReadersIdle

(* one round of the loop of Patch.parse; when the hunk parser returns    *)
(* False: Patch.parse line 343, add_patch lines 695-697 and              *)
(* PatchFile.__init__ lines 509-512                                      *)
ParseHunk ==
    /\ pc = "hunks"
    /\ \E r \in {hunk_parse(Val(patch).class, reader)} :
       LET p == Val(patch)
           closed == [p EXCEPT !.end = Some(patch_end(r.rd))]
       IN  /\ reader' = r.rd
           /\ CASE r.res = "ok" ->
                     /\ patch' = Some([p EXCEPT !.hunks = Append(@, r.hunk)])
                     /\ pc' = "hunks"
                     /\ UNCHANGED <<header, patches, end>>
                [] r.res = "fail" ->
                     /\ patch' = None
                     /\ patches' = Append(patches, closed)
                     /\ end' = Some(get_pos(r.rd, -1))
                     /\ header' = IF IsNone(header)
                                  THEN Some(get_raw_lines(0, closed.header.begin))
                                  ELSE header
                     /\ pc' = "scan"
                [] r.res = "raise" ->
                     /\ pc' = "raised"
                     /\ UNCHANGED <<header, patches, end, patch>>
    /\ UNCHANGED <<lines, diff_type, need_header>>
    /\ ReadersIdle

Next == AddPatch \/ ParseHunk \/ NoMorePatches

----------------------------------------------------------------------------
(* Inputs.  Spec reads every sequence of at most MaxLines lines over a   *)
(* set of lines that holds each header line, trigger and hunk line of    *)
(* the dialects, and the end-to-end scenarios of the specification.      *)

MaxLines == 3

L_old == <<"-", "-", "-", " ", "a", "\t", "2", "0", "2", "0", "\n">>
L_new == <<"+", "+", "+", " ", "b", "\t", "2", "0", "2", "0", "\n">>
L_uni == <<"@", "@", " ", "-", "1", " ", "+", "1", " ", "@", "@", "\n">>
L_ctx == <<" ", "x", "\n">>
L_cmd == <<"1", "c", "1", "\n">>
L_lt == <<"<", " ", "x", "\n">>
L_a == <<"3", "a", "\n">>
L_dot == <<".", "\n">>
L_d == <<"5", "d", "\n">>
L_s == <<"1", "s", "/", ".", "/", "/", "\n">>
L_junk == <<"j", "\n">>
L_comment == <<"#", "c", "\n">>
L_stars == <<"*", "*", "*", "*", "*", "*", "*", "*", "\n">>
L_cstar == <<"*", "*", "*", " ", "1", " ", "*", "*", "*", "*", "\n">>
L_git == Str_diff_git \o <<"a", " ", "b", "\n">>
L_mode == Str_new_mode \o <<"7", "\n">>
L_gitbin == Str_GIT_binary \o <<"\n">>

Alphabet ==
    {L_old, L_uni, L_ctx, L_cmd, L_lt, L_a, L_dot, L_s, L_junk,
     L_stars, L_cstar, L_git, L_mode, L_gitbin}

(* all sequences over S of length at most n *)
RECURSIVE SeqsUpTo(_, _)
SeqsUpTo(S, n) ==
    IF n = 0 THEN {<<>>}
    ELSE LET shorter == SeqsUpTo(S, n - 1)
         IN  shorter \cup {Append(q, x) : q \in shorter, x \in S}

(* the settings Spec reads its inputs under *)
DiffTypes == {ANY_DIFF, ED_DIFF, UNI_DIFF}

(* the state after PatchFile.__init__ lines 504-507 *)
Start ==
    /\ reader = ReaderInit
    /\ header = None
    /\ patches = <<>>
    /\ end = None
    /\ patch = None
    /\ pc = "scan"
    /\ freader = FileReaderInit
    /\ visited = {0}
    /\ result = None

(* each line of an input under one level of RFC 934 quoting or indented *)
Prefixed(prefix, input) == [k \in 1..Len(input) |-> prefix \o input[k]]
Quoted(input) == Prefixed(<<"-", " ">>, input)

(* the end-to-end scenarios: unified hello-world, the same mail-quoted, *)
(* normal diff, ed patch, git rename without body                       *)
S1_1 ==
    <<"-", "-", "-", " ", "a", "\t", "2", "0", "2", "0", "-", "0", "1",
      "-", "0", "1", " ", "0", "0", ":", "0", "0", ":", "0", "0", "\n">>
S1_2 ==
    <<"+", "+", "+", " ", "b", "\t", "2", "0", "2", "0", "-", "0", "1",
      "-", "0", "1", " ", "0", "0", ":", "0", "0", ":", "0", "1", "\n">>
S1_3 ==
    <<"@", "@", " ", "-", "1", ",", "2", " ", "+", "1", ",", "2", " ", "@",
      "@", "\n">>
S1_4 == <<" ", "h", "e", "l", "l", "o", "\n">>
S1_5 == <<"-", "w", "o", "r", "l", "d", "\n">>
S1_6 == <<"+", "W", "O", "R", "L", "D", "\n">>
Scenario1 == <<S1_1, S1_2, S1_3, S1_4, S1_5, S1_6>>
S3_1 == <<"2", ",", "3", "c", "2", ",", "3", "\n">>
S3_2 == <<"<", " ", "o", "l", "d", "1", "\n">>
S3_3 == <<"<", " ", "o", "l", "d", "2", "\n">>
S3_4 == <<"-", "-", "-", "\n">>
S3_5 == <<">", " ", "n", "e", "w", "1", "\n">>
S3_6 == <<">", " ", "n", "e", "w", "2", "\n">>
Scenario3 == <<S3_1, S3_2, S3_3, S3_4, S3_5, S3_6>>
S4_1 == <<"3", "a", "\n">>
S4_2 == <<"f", "o", "o", "\n">>
S4_3 == <<"b", "a", "r", "\n">>
S4_4 == <<".", "\n">>
S4_5 == <<"5", "d", "\n">>
Scenario4 == <<S4_1, S4_2, S4_3, S4_4, S4_5>>
S5_1 ==
    <<"d", "i", "f", "f", " ", "-", "-", "g", "i", "t", " ", "a", "/", "x",
      " ", "b", "/", "y", "\n">>
S5_2 ==
    <<"s", "i", "m", "i", "l", "a", "r", "i", "t", "y", " ", "i", "n", "d",
      "e", "x", " ", "1", "0", "0", "%", "\n">>
S5_3 ==
    <<"r", "e", "n", "a", "m", "e", " ", "f", "r", "o", "m", " ", "x",
      "\n">>
S5_4 == <<"r", "e", "n", "a", "m", "e", " ", "t", "o", " ", "y", "\n">>
Scenario5 == <<S5_1, S5_2, S5_3, S5_4>>

Scenarios ==
    {Scenario1, Quoted(Scenario1), Scenario3, Scenario4, Scenario5}

Init ==
    /\ lines \in SeqsUpTo(Alphabet, MaxLines) \cup Scenarios
    /\ diff_type \in DiffTypes
    /\ need_header \in BOOLEAN
    /\ Start

Spec == Init /\ [][Next]_vars

----------------------------------------------------------------------------
(* SpecUni reads unified patches: an optional '---'/'+++' header, a hunk  *)
(* line and every body of at most MaxBody lines, plain or indented by two *)
(* spaces.                                                                *)

MaxBody == 3

H_22 == S1_3
H_03 ==
    <<"@", "@", " ", "-", "0", ",", "0", " ", "+", "1", ",", "3", " ", "@",
      "@", "\n">>
H_10 ==
    <<"@", "@", " ", "-", "2", ",", "1", " ", "+", "1", ",", "0", " ", "@",
      "@", " ", "f", "\n">>
H_33 ==
    <<"@", "@", " ", "-", "1", ",", "3", " ", "+", "1", ",", "3", " ", "@",
      "@", "\n">>
L_del == <<"-", "y", "\n">>
L_add == <<"+", "z", "\n">>
L_tab == <<"\t", "x", "\n">>

UniHeads == {<<>>, <<L_old, L_new>>}
HunkLines == {H_22, L_uni, H_03, H_10}
BodyLines == {L_ctx, L_del, L_add, L_tab, L_junk, H_10}
Prefixes == {<<>>, <<" ", " ">>}

(* the counts P and R that the hunk lines declare *)
Declared(hl) ==
    CASE hl = H_22 -> [P |-> 2, R |-> 2]
      [] hl = L_uni -> [P |-> 1, R |-> 1]
      [] hl = H_03 -> [P |-> 0, R |-> 3]
      [] hl = H_10 -> [P |-> 1, R |-> 0]
      [] hl = H_33 -> [P |-> 3, R |-> 3]

UniInputs ==
    {Prefixed(prefix, head \o <<hl>> \o body) :
        prefix \in Prefixes, head \in UniHeads, hl \in HunkLines,
        body \in SeqsUpTo(BodyLines, MaxBody)}

InitUni ==
    /\ lines \in UniInputs
    /\ diff_type \in {ANY_DIFF, UNI_DIFF}
    /\ need_header \in BOOLEAN
    /\ Start

SpecUni == InitUni /\ [][Next]_vars

----------------------------------------------------------------------------
(* Properties *)

OldLines == {L_old, S1_1}
NewLines == {L_new, S1_2}
SrcSide(l) == l[1] \in {" ", "-"}
DstSide(l) == l[1] \in {" ", "+"}
AsChange(l) == [op |-> l[1], text |-> Tail(l)]
AsChanges(ls) == [k \in 1..Len(ls) |-> AsChange(ls[k])]

(* the op and text of the Change objects of a list *)
Fields(cs) == [k \in 1..Len(cs) |-> [op |-> cs[k].op, text |-> cs[k].text]]

(* the input is '--- a<TAB>time', '+++ b<TAB>time', a hunk line            *)
(* '@@ -S,P +D,R @@' and a body of '-', '+' and ' ' lines with exactly P  *)
(* source-side and R destination-side lines                               *)
BodyOf(input) == SubSeq(input, 4, Len(input))
WellFormedUni(input) ==
    /\ Len(input) >= 3
    /\ input[1] \in OldLines
    /\ input[2] \in NewLines
    /\ input[3] \in HunkLines \ {L_uni}
    /\ \A k \in 4..Len(input) :
          /\ input[k][1] \in {" ", "-", "+"}
          /\ input[k][2] # "#"
          /\ EndsWith(input[k], <<"\n">>)
    /\ Len(SelectSeq(BodyOf(input), SrcSide)) = Declared(input[3]).P
    /\ Len(SelectSeq(BodyOf(input), DstSide)) = Declared(input[3]).R

(* the result the claims C1 and C8 describe for a well-formed input *)
OneUniPatch(input) ==
    /\ Len(patches) = 1
    /\ patches[1].class = "Uni"
    /\ patches[1].header.old.name = Some(<<"a">>)
    /\ patches[1].header.new.name = Some(<<"b">>)
    /\ Len(patches[1].hunks) = 1
    /\ Fields(patches[1].hunks[1].src)
         = AsChanges(SelectSeq(BodyOf(input), SrcSide))
    /\ Fields(patches[1].hunks[1].dst)
         = AsChanges(SelectSeq(BodyOf(input), DstSide))

HunkLineAt(k) == CHOOSE hl \in HunkLines : EndsWith(lines[k + 1], hl)
IsHunkLineAt(k) ==
    /\ k >= 0 /\ k < Len(lines)
    /\ \E hl \in HunkLines : EndsWith(lines[k + 1], hl)

(* the body lines after the hunk line at position k, without the prefix *)
BodyAfter(k) ==
    LET n == Len(lines[k + 1]) - Len(HunkLineAt(k))
    IN  [j \in 1..(Len(lines) - k - 1) |-> Slice(lines[k + 1 + j], n)]

(* a body line arrives while its counter is 0 and the hunk is not complete *)
RECURSIVE Overrun(_, _, _, _)
Overrun(body, j, p, r) ==
    IF (p = 0 /\ r = 0) \/ j > Len(body) THEN FALSE
    ELSE LET ch == body[j][1]
         IN  CASE ch = "-" -> p = 0 \/ Overrun(body, j + 1, p - 1, r)
               [] ch = "+" -> r = 0 \/ Overrun(body, j + 1, p, r - 1)
               [] ch \in {" ", "=", "\t", "\n"} ->
                    p = 0 \/ r = 0 \/ Overrun(body, j + 1, p - 1, r - 1)
               [] OTHER -> FALSE

OverrunAt(k) ==
    /\ IsHunkLineAt(k)
    /\ Overrun(BodyAfter(k), 1, Declared(HunkLineAt(k)).P,
               Declared(HunkLineAt(k)).R)

(* the hunks the model holds: of the patches and of the patch in parsing *)
AllPatches == IF IsNone(patch) THEN patches ELSE Append(patches, Val(patch))
StoredCounts ==
    \A i \in 1..Len(AllPatches) :
        AllPatches[i].class = "Uni" =>
            \A k \in 1..Len(AllPatches[i].hunks) :
                LET h == AllPatches[i].hunks[k]
                IN  /\ IsHunkLineAt(Val(h.begin))
                    /\ Len(h.src) = Declared(HunkLineAt(Val(h.begin))).P
                    /\ Len(h.dst) = Declared(HunkLineAt(Val(h.begin))).R

(* C2: every hunk stored in a UniPatch has as many Changes in src as the *)
(* pattern length its '@@' line declares (1 when omitted) and as many in *)
(* dst as the declared replacement length; a hunk in whose body a line   *)
(* arrives while its counter is already 0 fails and is not stored.       *)
C2_DeclaredCounts ==
    [][/\ StoredCounts'
       /\ (pc = "hunks" /\ Val(patch).class = "Uni"
             /\ OverrunAt(reader.lineno))
          => /\ pc' = "scan"
             /\ patches' = Append(patches, patches'[Len(patches')])
             /\ patches'[Len(patches')].hunks = Val(patch).hunks]_vars

(* a patch with a stored hunk of declared counts 1 and 0, whose next    *)
(* hunk failed on a '+' line that found the replacement count at 0      *)
C2_Witness ==
    /\ pc = "scan"
    /\ Len(patches) = 1
    /\ patches[1].class = "Uni"
    /\ Len(patches[1].hunks) = 1
    /\ Len(patches[1].hunks[1].src) = 1
    /\ Len(patches[1].hunks[1].dst) = 0
    /\ OverrunAt(Val(patches[1].hunks[1].end) + 1)

(* C3: consecutive patches do not overlap and are in input order:       *)
(* patches[i].end < patches[i+1].begin.                                  *)
C3_PatchOrder ==
    \A i \in 1..(Len(patches) - 1) :
        Val(patches[i].end) < Val(patches[i + 1].begin)

C3_Witness ==
    /\ pc = "done"
    /\ Len(patches) = 2
    /\ Len(patches[1].hunks) > 0
    /\ Len(patches[2].hunks) > 0
    /\ Val(patches[1].end) < Val(patches[2].begin)

(* the raw lines of the ranges [begin, end] of the first k patches *)
RECURSIVE PatchRanges(_)
PatchRanges(k) ==
    IF k = 0 THEN <<>>
    ELSE PatchRanges(k - 1)
           \o SubSeq(lines, Val(patches[k].begin) + 1, Val(patches[k].end) + 1)

(* C4: once the PatchFile is built, the lines of PatchFile.header followed *)
(* by the raw lines [begin, end] of all patches in order are the input:    *)
(* every input line once, in order.                                        *)
C4_RoundTrip ==
    pc = "done" => Val(header) \o PatchRanges(Len(patches)) = lines

(* C5: the preamble is the raw lines of the input before the first line of *)
(* the first patch, whatever the dialect of that patch; when no patch is   *)
(* found it is the whole input.                                            *)
C5_Preamble ==
    ~IsNone(header) =>
        Val(header) = IF Len(patches) = 0 THEN lines
                      ELSE SubSeq(lines, 1, Val(patches[1].begin))

(* the dialects whose hunk parser is written *)
ParsedDialects == {"Normal", "Ed", "Uni"}

(* C6: a hunk parser of any dialect that meets a line it cannot parse     *)
(* returns failure and does not abort the parse: the hunk loop stops and  *)
(* the patch is appended to patches with exactly the hunks parsed before. *)
C6_HunkFailureNeverAborts ==
    [][(pc = "hunks" /\ Val(patch).class \in ParsedDialects)
          => /\ pc' \in {"hunks", "scan"}
             /\ pc' = "scan" =>
                   /\ Len(patches') = Len(patches) + 1
                   /\ patches'[Len(patches')].hunks = Val(patch).hunks]_vars

(* the dialects the scan recognises and whose bodies are not parsed *)
StubDialects == {"Context", "NewContext", "GitBinary"}

(* C7: when the scan recognises a context, new-context or git-binary      *)
(* patch, the construction does not raise: the patch is appended with its *)
(* dialect and header and without parsed hunk bodies, and the scan of the *)
(* remaining input goes on.                                               *)
C7_StubDialectsComplete ==
    [][(pc = "hunks" /\ Val(patch).class \in StubDialects)
          => /\ pc' \in {"hunks", "scan"}
             /\ pc' = "scan" =>
                   /\ patches'[Len(patches')].class = Val(patch).class
                   /\ patches'[Len(patches')].header = Val(patch).header]_vars

(* every line of the input carries one level of RFC 934 quoting *)
IsQuoted(input) ==
    \A k \in 1..Len(input) : StartsWith(input[k], <<"-", " ">>, 0)
Unquoted(input) == [k \in 1..Len(input) |-> Slice(input[k], 2)]

(* C8: a well-formed unified patch whose every line is prefixed with '- ' *)
(* is read with rfc934_nesting = 1 into one UniPatch with the names and   *)
(* the hunk src and dst of the same patch without the prefixes.           *)
C8_QuotedUnified ==
    (pc = "done" /\ IsQuoted(lines) /\ WellFormedUni(Unquoted(lines)))
        => /\ reader.rfc934_nesting = 1
           /\ OneUniPatch(Unquoted(lines))

(* the line counts of the normal command m = re_cmd(line): the number of *)
(* '< ' lines, of '---' dividers and of '> ' lines of its body           *)
NormalCounts(m) ==
    [ptrn |-> IF IsNone(m.g2) THEN (IF m.g3 = "a" THEN 0 ELSE 1)
              ELSE ToInt(Val(m.g2)) - ToInt(m.g1) + 1,
     div |-> IF m.g3 = "c" THEN 1 ELSE 0,
     repl |-> IF IsNone(m.g5) THEN 1
              ELSE ToInt(Val(m.g5)) - ToInt(m.g4) + 1]

(* the input holds the body with the counts c after the command line at *)
(* position k                                                           *)
NormalBodyAt(k, c) ==
    /\ c.ptrn >= 0 /\ c.repl >= 0
    /\ k + 1 + c.ptrn + c.div + c.repl <= Len(lines)
    /\ \A j \in 1..c.ptrn : StartsWith(lines[k + 1 + j], <<"<", " ">>, 0)
    /\ c.div = 1 => lines[k + 1 + c.ptrn + 1] = <<"-", "-", "-", "\n">>
    /\ \A j \in 1..c.repl :
          StartsWith(lines[k + 1 + c.ptrn + c.div + j], <<">", " ">>, 0)

(* the reader of a normal patch is at a command line followed by its body *)
AtNormalHunk ==
    /\ pc = "hunks"
    /\ Val(patch).class = "Normal"
    /\ reader.lineno < Len(lines)
    /\ re_cmd(lines[reader.lineno + 1]).ok
    /\ NormalBodyAt(reader.lineno, NormalCounts(re_cmd(lines[reader.lineno + 1])))

(* C9: the parse of a normal hunk 'L1[,L2](a|c|d)L3[,L4]' sets srcline = *)
(* L1 and dstline = L3 and consumes the body: ptrn lines '< ' go to src, *)
(* repl lines '> ' go to dst, with one '---' divider between them for    *)
(* 'c', and the reader is left after the last body line.                 *)
C9_NormalHunkBody ==
    [][AtNormalHunk =>
         LET m == re_cmd(lines[reader.lineno + 1])
             c == NormalCounts(m)
         IN  /\ pc' = "hunks"
             /\ Len(Val(patch').hunks) = Len(Val(patch).hunks) + 1
             /\ LET h == Val(patch').hunks[Len(Val(patch').hunks)]
                IN  /\ h.srcline = Some(ToInt(m.g1))
                    /\ h.dstline = Some(ToInt(m.g4))
                    /\ Len(h.src) = c.ptrn
                    /\ Len(h.dst) = c.repl
             /\ reader'.lineno
                  = reader.lineno + 1 + c.ptrn + c.div + c.repl]_vars

(* the single-line commands of ed *)
EdSingleLine == {<<"d">>, <<"s", "/", ".", "/", "/">>}

(* the reader of an ed patch is at a command line; for 'a', 'i' and 'c' *)
(* a line '.' follows it                                                *)
AtEdHunk ==
    /\ pc = "hunks"
    /\ Val(patch).class = "Ed"
    /\ reader.lineno < Len(lines)
    /\ ~IsNone(get_edcmd(lines[reader.lineno + 1]))
    /\ \/ Val(get_edcmd(lines[reader.lineno + 1])) \in EdSingleLine
       \/ \E d \in (reader.lineno + 1)..(Len(lines) - 1) :
             lines[d + 1] = <<".", "\n">>

(* the position of the first line '.' after position k *)
FirstDot(k) ==
    CHOOSE d \in (k + 1)..(Len(lines) - 1) :
        /\ lines[d + 1] = <<".", "\n">>
        /\ \A e \in (k + 1)..(d - 1) : lines[e + 1] # <<".", "\n">>

(* C10: the extent of an ed hunk is fixed by its command: 'd' and       *)
(* 's/.//' make a hunk of the command line alone (end = begin, the next *)
(* line is left to the next hunk); 'a', 'i' and 'c' make a hunk up to   *)
(* and including the first line '.', whose position is end.             *)
C10_EdHunkExtent ==
    [][AtEdHunk =>
         LET k == reader.lineno
             single == Val(get_edcmd(lines[k + 1])) \in EdSingleLine
             last == IF single THEN k ELSE FirstDot(k)
         IN  /\ pc' = "hunks"
             /\ Len(Val(patch').hunks) = Len(Val(patch).hunks) + 1
             /\ LET h == Val(patch').hunks[Len(Val(patch').hunks)]
                IN  /\ h.begin = Some(k)
                    /\ h.end = Some(last)
             /\ reader'.lineno = last + 1]_vars

----------------------------------------------------------------------------
(* SpecGit reads git entries without hunks: a 'diff --git' line followed  *)
(* by extended header lines, at most MaxEntries entries in a row.         *)

MaxEntries == 3

G_oldmode ==
    <<"o", "l", "d", " ", "m", "o", "d", "e", " ", "1", "0", "0", "6", "4",
      "4", "\n">>
G_newmode ==
    <<"n", "e", "w", " ", "m", "o", "d", "e", " ", "1", "0", "0", "7", "5",
      "5", "\n">>
G_delmode ==
    <<"d", "e", "l", "e", "t", "e", "d", " ", "f", "i", "l", "e", " ", "m",
      "o", "d", "e", " ", "1", "0", "0", "6", "4", "4", "\n">>
G_newfile ==
    <<"n", "e", "w", " ", "f", "i", "l", "e", " ", "m", "o", "d", "e", " ",
      "1", "0", "0", "6", "4", "4", "\n">>
G_index ==
    <<"i", "n", "d", "e", "x", " ", "1", "a", ".", ".", "2", "b", " ", "1",
      "0", "0", "6", "4", "4", "\n">>
G_index0 ==
    <<"i", "n", "d", "e", "x", " ", "1", "a", ".", ".", "2", "b", "\n">>
G_copyfrom == <<"c", "o", "p", "y", " ", "f", "r", "o", "m", " ", "x", "\n">>
G_copyto == <<"c", "o", "p", "y", " ", "t", "o", " ", "y", "\n">>
G_quoted ==
    <<"d", "i", "f", "f", " ", "-", "-", "g", "i", "t", " ", "a", "/", "x",
      " ", "\"", "b", "/", "y", "\"", " ", "\n">>

GitLines == {S5_1, G_quoted}
ExtGroups ==
    {<<S5_3, S5_4>>, <<G_oldmode, G_newmode>>, <<G_index>>,
     <<G_delmode, G_newfile>>, <<G_copyfrom, G_copyto>>, <<S5_2, G_index0>>}
GitEntries ==
    {<<S5_1>> \o ext : ext \in ExtGroups} \cup {<<G_quoted, S5_3, S5_4>>}

(* the concatenations of at most n entries *)
RECURSIVE EntrySeqs(_)
EntrySeqs(n) ==
    IF n = 0 THEN {<<>>}
    ELSE LET shorter == EntrySeqs(n - 1)
         IN  shorter \cup {q \o e : q \in shorter, e \in GitEntries}

InitGit ==
    /\ lines \in EntrySeqs(MaxEntries)
    /\ diff_type \in {ANY_DIFF, UNI_DIFF}
    /\ need_header \in BOOLEAN
    /\ Start

SpecGit == InitGit /\ [][Next]_vars

(* the positions of the 'diff --git' lines of the input, and the first *)
(* and the last position of the i-th entry                             *)
GitPositions == {k \in 0..(Len(lines) - 1) : lines[k + 1] \in GitLines}
EntryBegin(i) ==
    CHOOSE k \in GitPositions :
        Cardinality({j \in GitPositions : j < k}) = i - 1
EntryEnd(i) ==
    IF i = Cardinality(GitPositions) THEN Len(lines) - 1
    ELSE EntryBegin(i + 1) - 1
EntryHas(i, l) == \E k \in EntryBegin(i)..EntryEnd(i) : lines[k + 1] = l

(* the i-th patch is the i-th entry: a UniPatch without hunks over the  *)
(* lines of the entry, whose header holds the rename and copy marks of  *)
(* the entry                                                            *)
HeaderOnlyPatch(i) ==
    /\ patches[i].class = "Uni"
    /\ patches[i].hunks = <<>>
    /\ patches[i].begin = Some(EntryBegin(i))
    /\ patches[i].end = Some(EntryEnd(i))
    /\ patches[i].header.begin = Some(EntryBegin(i))
    /\ patches[i].header.end = Some(EntryEnd(i))
    /\ patches[i].header.old.rename = EntryHas(i, S5_3)
    /\ patches[i].header.new.rename = EntryHas(i, S5_4)
    /\ patches[i].header.old.copy = EntryHas(i, G_copyfrom)
    /\ patches[i].header.new.copy = EntryHas(i, G_copyto)

(* C11: a git entry with extended headers and no hunks becomes a UniPatch *)
(* with zero hunks and the header collected so far, when the end of input *)
(* ends it and when a following 'diff --git' line ends it; that line then *)
(* starts the next patch, so N entries in a row give N zero-hunk          *)
(* UniPatches in input order, a rename-only entry with old.rename and     *)
(* new.rename set.                                                        *)
C11_HeaderOnlyGitEntries ==
    /\ pc # "raised"
    /\ Len(patches) <= Cardinality(GitPositions)
    /\ \A i \in 1..Len(patches) : HeaderOnlyPatch(i)
    /\ pc = "done" => Len(patches) = Cardinality(GitPositions)

C11_Witness ==
    /\ pc = "done"
    /\ Len(patches) = 3
    /\ lines[1] = S5_1
    /\ patches[1].header.old.rename /\ patches[1].header.new.rename
    /\ patches[2].header.old.copy
    /\ Val(patches[3].end) = Len(lines) - 1

(* C12: after the scan consumes 'diff --git a/X b/Y' (two names and the *)
(* line end), the header of the patch has old.name = 'a/X' and          *)
(* new.name = 'b/Y'.                                                    *)
C12_GitNames ==
    \A i \in 1..Len(patches) :
        lines[Val(patches[i].begin) + 1] = S5_1 =>
            /\ patches[i].header.old.name = Some(<<"a", "/", "x">>)
            /\ patches[i].header.new.name = Some(<<"b", "/", "y">>)

(* the modes 100644 and 100755 read as octal numbers *)
Mode644 == 8 ^ 5 + 6 * 8 ^ 2 + 4 * 8 + 4
Mode755 == 8 ^ 5 + 7 * 8 ^ 2 + 5 * 8 + 5

(* C13: in git mode each extended header line sets its header field:    *)
(* 'old mode M' and 'deleted file mode M' set old.mode to octal M, 'new  *)
(* mode M' and 'new file mode M' set new.mode to octal M, 'index H..H M' *)
(* sets both, 'rename from/to' and 'copy from/to' set old/new.rename and *)
(* old/new.copy; each marks the extended headers as present, so that the *)
(* entry becomes a patch.                                                *)
C13_GitExtendedHeaders ==
    /\ pc = "done" => Len(patches) = Cardinality(GitPositions)
    /\ \A i \in 1..Len(patches) :
          LET h == patches[i].header
          IN  /\ EntryHas(i, G_oldmode) => h.old.mode = Some(Mode644)
              /\ EntryHas(i, G_delmode) => h.old.mode = Some(Mode644)
              /\ EntryHas(i, G_newmode) => h.new.mode = Some(Mode755)
              /\ EntryHas(i, G_newfile) => h.new.mode = Some(Mode644)
              /\ EntryHas(i, G_index) =>
                    h.old.mode = Some(Mode644) /\ h.new.mode = Some(Mode644)
              /\ EntryHas(i, S5_3) => h.old.rename
              /\ EntryHas(i, S5_4) => h.new.rename
              /\ EntryHas(i, G_copyfrom) => h.old.copy
              /\ EntryHas(i, G_copyto) => h.new.copy

----------------------------------------------------------------------------
(* SpecTypes reads every sequence of at most MaxLines header and trigger *)
(* lines of the dialects under each diff_type.                           *)

TriggerLines ==
    {L_old, L_uni, L_cmd, L_lt, L_a, L_dot, L_stars, L_cstar, L_git,
     L_mode, L_gitbin}

AllDiffTypes ==
    {ANY_DIFF, CONTEXT_DIFF, NORMAL_DIFF, ED_DIFF, NEW_CONTEXT_DIFF,
     UNI_DIFF, GIT_BINARY_DIFF}

InitTypes ==
    /\ lines \in SeqsUpTo(TriggerLines, MaxLines)
    /\ diff_type \in AllDiffTypes
    /\ need_header \in BOOLEAN
    /\ Start

SpecTypes == InitTypes /\ [][Next]_vars

(* the dialect of a patch is the configured one, CONTEXT and NEW_CONTEXT *)
(* admitting each other                                                  *)
SameDialect(class) ==
    \/ class_diff_type(class) = diff_type
    \/ /\ diff_type \in {CONTEXT_DIFF, NEW_CONTEXT_DIFF}
       /\ class_diff_type(class) \in {CONTEXT_DIFF, NEW_CONTEXT_DIFF}

(* C14: when diff_type is a dialect other than ANY, every patch of        *)
(* PatchFile.patches and every patch a trigger opens has that dialect,    *)
(* CONTEXT and NEW_CONTEXT admitting each other, and UNI admitting the    *)
(* git-binary patch that 'GIT binary patch' opens inside a git entry.     *)
C14_DiffTypeRestricts ==
    diff_type # ANY_DIFF =>
        \A i \in 1..Len(AllPatches) :
            \/ SameDialect(AllPatches[i].class)
            \/ diff_type = UNI_DIFF /\ AllPatches[i].class = "GitBinary"

C14_Witness ==
    /\ diff_type = ED_DIFF
    /\ pc = "done"
    /\ Len(patches) = 1
    /\ patches[1].class = "Ed"
    /\ \E k \in 1..Len(lines) : lines[k] = L_uni

(* C14 as stated: when diff_type is a dialect other than ANY, every patch *)
(* has that dialect (CONTEXT and NEW_CONTEXT admitting each other) and no *)
(* trigger of another dialect opens a patch.                              *)
C14_AsStated ==
    diff_type # ANY_DIFF =>
        \A i \in 1..Len(AllPatches) : SameDialect(AllPatches[i].class)

(* a context Change: made from a body line starting with ' ', '=', tab or *)
(* newline, all of which are stored with op ' '                          *)
IsContext(c) == c.op = " "

(* the hunk's context Changes are shared and no other Change is *)
SharedContext(h) ==
    LET cs == SelectSeq(h.src, IsContext)
        cd == SelectSeq(h.dst, IsContext)
    IN  /\ Len(cs) = Len(cd)
        /\ \A n \in 1..Len(cs) : cs[n].id = cd[n].id /\ cs[n] = cd[n]
        /\ \A a \in 1..Len(h.src) : h.src[a].op \in {" ", "-"}
        /\ \A b \in 1..Len(h.dst) : h.dst[b].op \in {" ", "+"}
        /\ \A a \in 1..Len(h.src), b \in 1..Len(h.dst) :
              h.src[a].id = h.dst[b].id => IsContext(h.src[a])

(* C15: in every parsed unified hunk the k-th context Change of src is   *)
(* the same object as the k-th context Change of dst, while a '-' Change *)
(* is in src only and a '+' Change in dst only.                          *)
C15_SharedContext ==
    \A i \in 1..Len(AllPatches) :
        AllPatches[i].class = "Uni" =>
            \A k \in 1..Len(AllPatches[i].hunks) :
                SharedContext(AllPatches[i].hunks[k])

C15_Witness ==
    /\ pc = "done"
    /\ Len(patches) = 1
    /\ Len(patches[1].hunks) = 1
    /\ LET h == patches[1].hunks[1]
       IN  /\ Len(h.src) = 2 /\ Len(h.dst) = 2
           /\ h.src[1].op = " " /\ h.src[1].id = h.dst[1].id
           /\ h.src[2].op = "-" /\ h.dst[2].op = "+"
           /\ h.src[2].id # h.dst[2].id

----------------------------------------------------------------------------
(* SpecCName reads an 'Index:' line with a C-string name, followed by a  *)
(* unified hunk: the names are all sequences of at most MaxName          *)
(* characters of the escaped set and a letter, quoted and escaped.       *)

MaxName == 2

NameChars == {"a", "BEL", "BS", "\f", "\n", "\r", "\t", "VT", "\\", "\""}

(* the escaped form of a character and of a name, and the quoted name *)
Escape(c) ==
    CASE c = "BEL" -> <<"\\", "a">>
      [] c = "BS" -> <<"\\", "b">>
      [] c = "\f" -> <<"\\", "f">>
      [] c = "\n" -> <<"\\", "n">>
      [] c = "\r" -> <<"\\", "r">>
      [] c = "\t" -> <<"\\", "t">>
      [] c = "VT" -> <<"\\", "v">>
      [] c = "\\" -> <<"\\", "\\">>
      [] c = "\"" -> <<"\\", "\"">>
      [] OTHER -> <<c>>
RECURSIVE EscapeAll(_)
EscapeAll(s) ==
    IF Len(s) = 0 THEN <<>> ELSE Escape(Head(s)) \o EscapeAll(Tail(s))
CQuote(s) == <<"\"">> \o EscapeAll(s) \o <<"\"">>

Names == SeqsUpTo(NameChars, MaxName)
Tails == {<<>>, <<" ", "z">>}

(* an unknown escape and an unterminated string *)
Malformed == {<<"\"", "\\", "q", "\"", " ", "z">>, <<"\"", "a">>}

CNameLine(spec) == Str_Index \o <<" ">> \o spec \o <<"\n">>
CNameInputs ==
    {<<CNameLine(CQuote(s) \o t), L_uni, L_ctx>> : s \in Names, t \in Tails}
        \cup {<<CNameLine(m), L_uni, L_ctx>> : m \in Malformed}

InitCName ==
    /\ lines \in CNameInputs
    /\ diff_type \in {ANY_DIFF, UNI_DIFF}
    /\ need_header \in BOOLEAN
    /\ Start

SpecCName == InitCName /\ [][Next]_vars

(* C16: parse_c_name applied to the quoted, escaped form of a name s     *)
(* followed by a tail returns (s, tail): the name without its quotes and *)
(* with the escapes decoded; an unknown or malformed escape returns a    *)
(* null name and the original text.                                      *)
C16_CStringRoundTrip ==
    Len(patches) >= 1 =>
        /\ \A s \in Names, t \in Tails :
              lines[1] = CNameLine(CQuote(s) \o t) =>
                  patches[1].header.index
                      = Some([quoted |-> TRUE, name |-> Some(s), text |-> t])
        /\ \A m \in Malformed :
              lines[1] = CNameLine(m) =>
                  patches[1].header.index
                      = Some([quoted |-> TRUE, name |-> None,
                              text |-> m \o <<"\n">>])

(* C17: a hunk parser (normal, ed, unified) called with the reader at   *)
(* position p returns success with the reader after the hunk, or        *)
(* returns failure with the reader at p again, also when it fails after *)
(* its first line.                                                      *)
C17_FailureRestoresPosition ==
    [][(pc = "hunks" /\ Val(patch).class \in ParsedDialects /\ pc' = "scan")
          => reader'.lineno = reader.lineno]_vars

----------------------------------------------------------------------------
(* SpecProgress reads every sequence of at most MaxLines hunk and body   *)
(* lines of the parsed dialects, among them a '@@ -' line outside the    *)
(* unified hunk grammar and an indented normal command.                  *)

L_badhunk == <<"@", "@", " ", "-", "x", "\n">>
L_icmd == <<" ", " ">> \o L_cmd

ProgressLines ==
    {L_badhunk, L_icmd, L_cmd, L_lt, L_uni, L_ctx, L_a, L_dot}

InitProgress ==
    /\ lines \in SeqsUpTo(ProgressLines, MaxLines)
    /\ diff_type \in AllDiffTypes
    /\ need_header \in BOOLEAN
    /\ Start

SpecProgress == InitProgress /\ [][Next]_vars

(* the reader position at which the add_patch call in progress started: *)
(* the line after the end of the previous call, add_patch line 695      *)
CallStart == IF IsNone(end) THEN 0 ELSE Val(end) + 1

(* C18: every add_patch call that returns success leaves the reader at  *)
(* a position strictly greater than the position at which the call      *)
(* started, so that the construction terminates on every finite input.  *)
C18_AddPatchAdvances ==
    [][(pc = "hunks" /\ pc' = "scan") => reader'.lineno > CallStart]_vars

----------------------------------------------------------------------------
(* SpecChopped reads one unified hunk line followed by every body of at *)
(* most MaxBody lines, the last of which may lack its newline.          *)

L_cut == <<" ", "x">>
ChoppedHunkLines == {H_22, H_33, H_03, L_uni}
ChoppedBodyLines == {L_ctx, L_del, L_add, L_cut}

ChoppedInputs ==
    {<<hl>> \o body :
        hl \in ChoppedHunkLines, body \in SeqsUpTo(ChoppedBodyLines, MaxBody)}

InitChopped ==
    /\ lines \in ChoppedInputs
    /\ diff_type \in {ANY_DIFF, UNI_DIFF}
    /\ need_header \in BOOLEAN
    /\ Start

SpecChopped == InitChopped /\ [][Next]_vars

Terminated(l) == EndsWith(l, <<"\n">>)

(* what is left of the counts p and r after the lines of body from j on: *)
(* "complete" when both reach 0, "chopped" when the input ends or its    *)
(* last line lacks the newline before that, "other" for any other body   *)
RECURSIVE Remaining(_, _, _, _)
Remaining(body, j, p, r) ==
    IF p = 0 /\ r = 0 THEN [at |-> "complete", p |-> p, r |-> r]
    ELSE IF j > Len(body) \/ (j = Len(body) /\ ~Terminated(body[j]))
    THEN [at |-> "chopped", p |-> p, r |-> r]
    ELSE IF ~Terminated(body[j]) THEN [at |-> "other", p |-> p, r |-> r]
    ELSE CASE body[j][1] = "-" /\ p > 0 -> Remaining(body, j + 1, p - 1, r)
           [] body[j][1] = "+" /\ r > 0 -> Remaining(body, j + 1, p, r - 1)
           [] body[j][1] = " " /\ p > 0 /\ r > 0 ->
                Remaining(body, j + 1, p - 1, r - 1)
           [] OTHER -> [at |-> "other", p |-> p, r |-> r]

RemainingOf(input) ==
    Remaining(Tail(input), 1, Declared(input[1]).P, Declared(input[1]).R)

(* n blank context lines *)
Blanks(n) == [k \in 1..n |-> [op |-> " ", text |-> <<"\n">>]]

(* the hunk that the body and n synthesized blank context lines make *)
CompletedBy(hunk, body, n) ==
    /\ Fields(hunk.src)
         = AsChanges(SelectSeq(SelectSeq(body, Terminated), SrcSide))
             \o Blanks(n)
    /\ Fields(hunk.dst)
         = AsChanges(SelectSeq(SelectSeq(body, Terminated), DstSide))
             \o Blanks(n)

(* the parse of the first hunk is about to start *)
AtFirstHunk ==
    /\ pc = "hunks"
    /\ patches = <<>>
    /\ Val(patch).hunks = <<>>
    /\ reader.lineno = 0

(* the outcome of the hunk parse when left is what remains at the point *)
(* where the reader fails                                               *)
ChoppedOutcome(left) ==
    left.at = "chopped" =>
        IF left.r < 3 /\ left.p = left.r
        THEN /\ pc' = "hunks"
             /\ Len(Val(patch').hunks) = 1
             /\ CompletedBy(Val(patch').hunks[1], Tail(lines), left.r)
        ELSE /\ pc' = "scan"
             /\ Len(patches') = 1
             /\ patches'[1].hunks = <<>>

(* C19: when the reader fails (end of input or an unterminated line)    *)
(* inside a unified hunk body, the parser goes on with a synthesized    *)
(* blank context line ' \n' if fewer than 3 replacement lines remain    *)
(* and fails the hunk otherwise. Each synthesized line counts as a      *)
(* context line, so the hunk is completed by r blank lines when r < 3   *)
(* source and r replacement lines remain, and fails, the loop ended,    *)
(* in every other case.                                                 *)
C19_ChoppedBody == [][AtFirstHunk => ChoppedOutcome(RemainingOf(lines))]_vars

C19_Witness ==
    /\ pc = "done"
    /\ lines = <<H_22, L_del, L_add, L_cut>>
    /\ Len(patches) = 1
    /\ Len(patches[1].hunks) = 1
    /\ Fields(patches[1].hunks[1].src) = <<AsChange(L_del)>> \o Blanks(1)
    /\ Fields(patches[1].hunks[1].dst) = <<AsChange(L_add)>> \o Blanks(1)

----------------------------------------------------------------------------
(* the numbers S, P, D, R that a hunk line of HunkLines is written with, *)
(* an omitted count as None                                              *)
Written(hl) ==
    CASE hl = H_22 -> [S |-> 1, P |-> Some(2), D |-> 1, R |-> Some(2)]
      [] hl = L_uni -> [S |-> 1, P |-> None, D |-> 1, R |-> None]
      [] hl = H_03 -> [S |-> 0, P |-> Some(0), D |-> 1, R |-> Some(3)]
      [] hl = H_10 -> [S |-> 2, P |-> Some(1), D |-> 1, R |-> Some(0)]

CountOr1(count) == IF IsNone(count) THEN 1 ELSE Val(count)
LineFor(start, count) == IF count = Some(0) THEN start + 1 ELSE start

(* the hunk parsed from the hunk line w has the claimed numbers *)
HunkNumbers(h, w) ==
    /\ h.srcline = Some(LineFor(w.S, w.P))
    /\ h.dstline = Some(LineFor(w.D, w.R))
    /\ Len(h.src) = CountOr1(w.P)
    /\ Len(h.dst) = CountOr1(w.R)

(* C20: for a unified hunk line '@@ -S[,P] +D[,R] @@' the counts P and R *)
(* are 1 when omitted, the hunk's srcline is S+1 when P is written as 0  *)
(* and S otherwise, and its dstline is D+1 when R is written as 0 and D  *)
(* otherwise.                                                            *)
C20_HunkLineNumbers ==
    \A i \in 1..Len(AllPatches) :
        AllPatches[i].class = "Uni" =>
            \A k \in 1..Len(AllPatches[i].hunks) :
                /\ ~IsNone(AllPatches[i].hunks[k].begin)
                /\ IsHunkLineAt(Val(AllPatches[i].hunks[k].begin))
                /\ HunkNumbers(AllPatches[i].hunks[k],
                     Written(HunkLineAt(Val(AllPatches[i].hunks[k].begin))))

(* '@@ -0,0 +1,3 @@' and three '+' lines: srcline 1, dstline 1 *)
C20_Witness ==
    /\ pc = "done"
    /\ lines = <<H_03, L_add, L_add, L_add>>
    /\ Len(patches) = 1
    /\ Len(patches[1].hunks) = 1
    /\ patches[1].hunks[1].srcline = Some(1)
    /\ patches[1].hunks[1].dstline = Some(1)
    /\ patches[1].hunks[1].src = <<>>
    /\ Fields(patches[1].hunks[1].dst) = AsChanges(<<L_add, L_add, L_add>>)

----------------------------------------------------------------------------
(* SpecHeader reads every sequence of at most MaxLines header lines and *)
(* normal and ed command lines, with and without need_header.           *)

L_index == Str_Index \o <<" ", "f", "\n">>

HeaderLines == {L_old, L_new, L_index, L_git, L_cstar}
CommandLines == {L_cmd, L_lt, L_a, L_d, L_dot}

InitHeader ==
    /\ lines \in SeqsUpTo(HeaderLines \cup CommandLines, MaxLines)
    /\ diff_type \in {ANY_DIFF, NORMAL_DIFF, ED_DIFF}
    /\ need_header \in BOOLEAN
    /\ Start

SpecHeader == InitHeader /\ [][Next]_vars

(* the line at position k of the input *)
LineAt(k) == IF k >= 0 /\ k < Len(lines) THEN lines[k + 1] ELSE <<>>

(* an add_patch call finds a patch: the step from the scan to its hunks *)
Opens(class) ==
    /\ pc = "scan"
    /\ pc' = "hunks"
    /\ Val(patch').class = class

(* a header line lies between the start of the scan and the first line *)
(* of the patch it opens                                               *)
HeaderBefore ==
    \E k \in reader.lineno..(Val(Val(patch').begin) - 1) :
        LineAt(k) \in HeaderLines

(* the scan is about to read position reader.lineno *)
ScanAt(type) ==
    /\ pc = "scan"
    /\ Len(patches) < MaxPatches
    /\ diff_type = type

OpensHere(class) ==
    /\ Opens(class)
    /\ Val(patch').begin = Some(reader.lineno)

(* C21: with need_header true and diff_type ANY, a scan opens a normal *)
(* or an ed patch only after it has consumed a header line ('*** ',    *)
(* '+++ ', '--- ', 'Index:' or 'diff --git'); with diff_type ED_DIFF   *)
(* an ed command, and with NORMAL_DIFF a normal command followed by    *)
(* its '< ' line, opens the patch at once, whatever need_header is.    *)
C21_NeedHeader ==
    [][/\ (need_header /\ diff_type = ANY_DIFF
              /\ (Opens("Normal") \/ Opens("Ed"))) => HeaderBefore
       /\ (ScanAt(ED_DIFF) /\ LineAt(reader.lineno) \in {L_a, L_d})
             => OpensHere("Ed")
       /\ (ScanAt(NORMAL_DIFF) /\ LineAt(reader.lineno) = L_cmd
              /\ LineAt(reader.lineno + 1) = L_lt)
             => OpensHere("Normal")]_vars

C21_Witness ==
    /\ pc = "done"
    /\ need_header
    /\ diff_type = ANY_DIFF
    /\ lines = <<L_index, L_a, L_dot>>
    /\ Len(patches) = 1
    /\ patches[1].class = "Ed"
    /\ patches[1].begin = Some(1)

----------------------------------------------------------------------------
(* SpecReaders applies the reader operations, in any order, to a         *)
(* LineReader over a list of lines and to a FileReader over the same     *)
(* lines as one stream.  The content is at most MaxContent lines, of     *)
(* which the last may lack its newline.                                  *)

MaxContent == 2

ReaderLines == {L_ctx, L_comment, L_a}

Contents ==
    SeqsUpTo(ReaderLines, MaxContent)
      \cup {Append(c, L_cut) : c \in SeqsUpTo(ReaderLines, MaxContent - 1)}

InitReaders ==
    /\ lines \in Contents
    /\ diff_type = ANY_DIFF
    /\ need_header = FALSE
    /\ \E indent \in {0, 1} :
          /\ reader = [ReaderInit EXCEPT !.indent = indent]
          /\ freader = [FileReaderInit EXCEPT !.indent = indent]
    /\ header = None
    /\ patches = <<>>
    /\ end = None
    /\ patch = None
    /\ pc = "done"
    /\ visited = {0}
    /\ result = None

(* no PatchFile is built while the readers are operated *)
PatchFileIdle ==
    UNCHANGED <<lines, diff_type, need_header, header, patches, end, patch,
                pc>>

(* what a caller sees of a read: the flag, self.line and the position *)
Seen(got) == [ok |-> got.ok, line |-> got.rd.line, pos |-> got.rd.lineno]

(* the read that the last operation, a backtrack, took back *)
TakenBack ==
    IF ~IsNone(result) /\ Val(result).op = "backtrack"
    THEN Val(result).before ELSE None

(* the result of a read by both readers *)
Read(op, skip, l, f) ==
    /\ reader' = l.rd
    /\ freader' = f.rd
    /\ visited' = visited \cup (reader.lineno..l.rd.lineno)
    /\ result' = Some([op |-> op, skip |-> skip, l |-> Seen(l), f |-> Seen(f),
                       before |-> TakenBack])

(* reader.get_line(skip_comments) *)
GetLine ==
    /\ \E skip \in BOOLEAN :
          Read("get_line", skip, get_line(reader, skip),
               get_line(freader, skip))
    /\ PatchFileIdle

(* reader.get_raw_line() *)
GetRawLine ==
    /\ Read("get_raw_line", TRUE, get_raw_line(reader), get_raw_line(freader))
    /\ PatchFileIdle

(* reader.get_pos(lineoff) *)
GetPos ==
    /\ \E lineoff \in {-1, 0} :
          result' = Some([op |-> "get_pos", lineoff |-> lineoff,
                          l |-> get_pos(reader, lineoff),
                          f |-> FileReader_get_pos(freader, lineoff)])
    /\ UNCHANGED <<reader, freader, visited>>
    /\ PatchFileIdle

(* reader.set_pos(pos) for a position the readers have been at *)
SetPos ==
    /\ \E pos \in visited :
          /\ reader' = set_pos(reader, pos)
          /\ freader' = FileReader_set_pos(freader, pos).rd
          /\ result' =
               Some([op |-> "set_pos", pos |-> pos,
                     l |-> [raised |-> FALSE, pos |-> pos],
                     f |-> [raised |-> FileReader_set_pos(freader, pos).raised,
                            pos |-> FileReader_set_pos(freader, pos).rd.lineno]])
    /\ UNCHANGED visited
    /\ PatchFileIdle

(* reader.set_pos(reader.get_pos(-1)) after a successful get_line *)
Backtrack ==
    /\ ~IsNone(result)
    /\ Val(result).op = "get_line"
    /\ Val(result).l.ok
    /\ Val(result).f.ok
    /\ reader' = set_pos(reader, get_pos(reader, -1))
    /\ freader' =
         FileReader_set_pos(freader, FileReader_get_pos(freader, -1)).rd
    /\ result' = Some([op |-> "backtrack",
                       before |-> Some([skip |-> Val(result).skip,
                                        l |-> Val(result).l,
                                        f |-> Val(result).f])])
    /\ UNCHANGED visited
    /\ PatchFileIdle

(* what a caller sees of get_raw_lines: the lines and the position after *)
Raw(raised, ls, pos) == [raised |-> raised, lines |-> ls, pos |-> pos]

(* reader.get_raw_lines(start, end) with start <= end *)
GetRawLines ==
    /\ \E start \in 0..Len(lines) : \E stop \in start..(Len(lines) + 1) :
       \E f \in {FileReader_get_raw_lines(freader, start, Some(stop))} :
          /\ freader' = f.rd
          /\ result' =
               Some([op |-> "get_raw_lines", start |-> start, stop |-> stop,
                     from |-> [pos |-> freader.lineno, tell |-> freader.tell],
                     tell |-> f.rd.tell,
                     l |-> Raw(FALSE, get_raw_lines(start, Some(stop)),
                               reader.lineno),
                     f |-> Raw(f.raised, f.lines, f.rd.lineno)])
    /\ UNCHANGED <<reader, visited>>
    /\ PatchFileIdle

NextReaders ==
    GetLine \/ GetRawLine \/ GetPos \/ SetPos \/ Backtrack \/ GetRawLines

SpecReaders == InitReaders /\ [][NextReaders]_vars

(* a get_line that follows the backtrack of a get_line with the same *)
(* skip_comments                                                     *)
Reread ==
    /\ ~IsNone(result)
    /\ Val(result).op = "get_line"
    /\ ~IsNone(Val(result).before)
    /\ Val(Val(result).before).skip = Val(result).skip

(* C22: after a successful get_line that produced the line L,         *)
(* set_pos(get_pos(-1)) followed by get_line with the same settings   *)
(* produces L again and ends at the position before the backtrack, in *)
(* both readers and also when comment lines were skipped on the way   *)
(* to L; and restoring a position twice is restoring it once.         *)
C22_BacktrackRestores ==
    /\ Reread =>
          /\ Val(result).l = Val(Val(result).before).l
          /\ Val(result).f = Val(Val(result).before).f
    /\ \A pos \in visited :
          /\ set_pos(set_pos(reader, pos), pos) = set_pos(reader, pos)
          /\ FileReader_set_pos(FileReader_set_pos(freader, pos).rd, pos)
               = FileReader_set_pos(freader, pos)

(* '#c' was skipped on the way to ' x', which is read again *)
C22_Witness ==
    /\ Reread
    /\ lines = <<L_comment, L_ctx>>
    /\ Val(result).skip
    /\ Val(result).l = [ok |-> TRUE, line |-> L_ctx, pos |-> 2]
    /\ Val(result).f = [ok |-> TRUE, line |-> L_ctx, pos |-> 2]
    /\ freader.tell = Len(L_comment) + Len(L_ctx)


(* the offset at which line k of the content starts *)
LineOffset(k) == Len(Flatten(SubSeq(lines, 1, k)))

(* line2pos has an entry for the current line number, and entry k is the *)
(* offset at which line k starts                                         *)
IndexOK ==
    /\ Len(freader.line2pos) > freader.lineno
    /\ \A k \in 0..(Len(freader.line2pos) - 1) :
          k <= Len(lines) /\ freader.line2pos[k + 1] = LineOffset(k)

(* get_raw_lines has left the FileReader at the line and the offset it *)
(* was called at                                                       *)
RawLinesKeepPosition ==
    (~IsNone(result) /\ Val(result).op = "get_raw_lines") =>
        /\ Val(result).f.pos = Val(result).from.pos
        /\ Val(result).tell = Val(result).from.tell

(* C23: for the same content the LineReader and the FileReader return   *)
(* the same flags, line text, positions and raw slices after any        *)
(* sequence of get_line, get_raw_line, get_pos, set_pos to a visited    *)
(* position and get_raw_lines(start, end) with start <= end; line2pos   *)
(* always has an entry for the current line number, entry k being the   *)
(* offset at which line k starts, and get_raw_lines leaves the reader   *)
(* position unchanged.                                                  *)
C23_ReadersEquivalent ==
    /\ ~IsNone(result) /\ Val(result).op # "backtrack"
          => Val(result).l = Val(result).f
    /\ reader.lineno = freader.lineno
    /\ reader.line = freader.line
    /\ IndexOK
    /\ RawLinesKeepPosition

====
